---- MODULE Spec2Model ----
(***************************************************************************)
(* Conference portal: the paper-review, payment-reconciliation and inquiry *)
(* workflows of the React pages, over the hosted persistence gateway.      *)
(*                                                                         *)
(* Each page handler is one action.  A gateway call (create, update,       *)
(* delete, list) either succeeds or throws; the outcome is an input of the *)
(* action, and the handler's catch branch is the failing case.             *)
(*                                                                         *)
(* A text value is the triple (lead, core, trail): the number of leading   *)
(* white-space characters, the length of the part that trim() keeps, and   *)
(* the number of trailing white-space characters.  Only length and trim()  *)
(* are ever applied to titles, abstracts, keywords and replies.            *)
(***************************************************************************)
EXTENDS Integers, Sequences, FiniteSets, TLC

\* ------------------------------------------------------------------ bounds
MaxTime == 1
MaxPapers == 1
MaxPayments == 1
MaxMessages == 1
MaxProfiles == 2
MaxRemovable == 2
MaxCountedPapers == 5
MaxOwned == 2
MaxRecorded == 2
MaxCountedPayments == 3
MaxMoved == 2
MaxMonths == 7
MaxFeedPapers == 4
MaxFeedPayments == 4
MaxFeedMessages == 3

\* ------------------------------------------------------- program constants
TitleMinLength == 5
TitleMaxLength == 200
AbstractMinLength == 100
AbstractMaxLength == 2000
MiB == 1024 * 1024
PaperMaxSize == 16 * MiB
SlipMaxSize == 5 * MiB

\* ------------------------------------------------------------- principals
Users == {"u1", "u2"}
Admins == {"a1", "a2"}
NoUser == "<null>"
\* a page's state is kept per signed-in principal's browser
Principals == Users \cup Admins

\* useAuth: isAdmin is user?.userRole === 'ADMIN'
userRole(p) == IF p \in Admins THEN "ADMIN" ELSE "USER"

\* mutant: every signed-in user counts as an admin
isAdmin_mut(p) == p # NoUser

isAdmin(p) == p # NoUser /\ userRole(p) = "ADMIN"

\* <ProtectedRoute requireAdmin>: the page is rendered for the principal;
\* the component is not among the sources, the specification makes the
\* ADMIN role the only gate of the admin pages
ProtectedRoute(p, requireAdmin) ==
  /\ p # NoUser
  /\ requireAdmin => isAdmin(p)

\* ------------------------------------------------------------ text values
Str(l, c, t) == [lead |-> l, core |-> c, trail |-> t]
EmptyStr == Str(0, 0, 0)
\* String.prototype.length
Length(s) == s.lead + s.core + s.trail
\* String.prototype.trim
Trim(s) == Str(0, s.core, 0)
\* !s : the empty string is falsy
Falsy(s) == Length(s) = 0

\* ------------------------------------------------------------ JS objects
\* the value of a property that was assigned undefined (time-valued only)
Undefined == -1
TimeKeys == {"submittedAt", "reviewedAt", "createdAt", "updatedAt",
             "processedAt", "respondedAt"}
IsUndefined(o, k) == k \in TimeKeys /\ o[k] = Undefined
\* o.k is present and not undefined
Has(o, k) == k \in DOMAIN o /\ ~IsUndefined(o, k)
\* { ...a, ...b } : own properties of b override, undefined included
Spread(a, b) ==
  [k \in DOMAIN a \cup DOMAIN b |-> IF k \in DOMAIN b THEN b[k] ELSE a[k]]
\* JSON.stringify drops the properties whose value is undefined
JsonBody(o) == [k \in {j \in DOMAIN o : ~IsUndefined(o, j)} |-> o[k]]

\* -------------------------------------------------- persistence gateway
\* A collection is a function from _id to the stored record.
\* update(id, partial): merges the transmitted properties into the record
GatewayUpdate(coll, id, partial) ==
  [coll EXCEPT ![id] = Spread(coll[id], JsonBody(partial))]
\* create(record): the gateway assigns the _id
GatewayCreate(coll, id, record) ==
  [i \in DOMAIN coll \cup {id} |->
     IF i = id THEN Spread(record, [_id |-> id]) ELSE coll[i]]
\* delete(id)
GatewayDelete(coll, id) == [i \in DOMAIN coll \ {id} |-> coll[i]]

\* the position of record r in a list sorted by key descending; records with
\* equal keys keep their creation order (newest _id first)
Before(a, b, key) == a[key] > b[key] \/ (a[key] = b[key] /\ a._id > b._id)
RECURSIVE SortDesc(_, _)
SortDesc(recs, key) ==
  IF recs = {} THEN <<>>
  ELSE LET first == CHOOSE r \in recs :
                      \A o \in recs \ {r} : Before(r, o, key)
       IN <<first>> \o SortDesc(recs \ {first}, key)
\* list({ sort: { key: -1 } })
GatewayList(coll, key) == SortDesc({coll[i] : i \in DOMAIN coll}, key)
\* mutant: the filter is not applied
GatewayListFor_mut(coll, uid, key) == SortDesc({coll[i] : i \in DOMAIN coll}, key)

\* list({ filter: { user_id }, sort: { key: -1 } })
GatewayListFor(coll, uid, key) ==
  SortDesc({coll[i] : i \in {j \in DOMAIN coll : coll[j].user_id = uid}}, key)

\* prev.map(x => x._id === id ? f(x) : x) with f = spread of upd
MapMerge(list, id, upd) ==
  [i \in DOMAIN list |->
     IF list[i]._id = id THEN Spread(list[i], upd) ELSE list[i]]
\* mutant: the filter keeps every element
FilterOut_mut(list, id) == list

\* prev.filter(x => x._id !== id)
FilterOut(list, id) == SelectSeq(list, LAMBDA x : x._id # id)
Ids(list) == {list[i]._id : i \in DOMAIN list}
Find(list, id) == list[CHOOSE i \in DOMAIN list : list[i]._id = id]

VARIABLES
  now,          \* Date.now(), in ticks
  user,         \* useAuth().user of the submitter's browser session
  formData,     \* SubmitPaper form state
  papers,       \* gateway collection `papers`
  adminPapers,  \* AdminPapers `papers` state, per admin session
  reviewed,     \* history: the _ids on which a review call has succeeded
  selectedFile,   \* Payments `selectedFile` state
  paymentDetails, \* Payments `paymentDetails` state
  myPayments,     \* Payments `payments` state (the user's own list)
  payments,       \* gateway collection `payments`
  adminPayments,  \* AdminFinancials `payments` state, per admin session
  everCompleted,  \* history: the _ids whose stored status was set to completed
  offered,        \* history: the file last passed to Payments.handleFileSelect,
                  \* NoFile once another handler has changed selectedFile
  messages,       \* gateway collection `messages`
  msgSeq,         \* the number of messages created so far
  adminMessages,  \* AdminMessages `messages` state, per admin session
  markedRead,     \* history: the <<session, _id>> whose handleMarkAsRead succeeded
  removed,        \* history: the <<session, _id>> whose handleDeleteMessage succeeded
  route,          \* the route the router of the submitter's browser shows
  mySubmissions,  \* MySubmissions `papers` state of the submitter's session
  dashStats,      \* AdminDashboard `stats` state
  finStats,       \* AdminFinancials `stats` state, per admin session
  profiles,       \* gateway collection `user_profiles`
  profileData,    \* UserProfile `profileData` state, per browser tab
  profileSave,    \* UserProfile.handleProfileSubmit in flight, per browser tab
  reviewModal,    \* AdminPapers `reviewModal` state, per admin session
  replyModal,     \* AdminMessages `replyModal` state, per admin session
  aborted         \* history: how the last admin handler run that wrote nothing
                  \* ended, with the gateway calls it issued and its toasts

subVars == <<formData, papers, adminPapers, reviewed>>
payVars == <<selectedFile, paymentDetails, myPayments, payments,
             adminPayments, everCompleted, offered>>
msgVars == <<messages, msgSeq, adminMessages, markedRead>>
repVars == <<mySubmissions, dashStats, finStats>>
profVars == <<profiles, profileData, profileSave>>
uiVars == <<reviewModal, replyModal, aborted>>
extVars == <<removed, route, repVars, profVars, uiVars>>
vars == <<now, user, subVars, payVars, msgVars, extVars>>

\* useState(null) of a modal
NoModal == [open |-> FALSE]

\* no admin handler run has ended without writing yet
NoAbort == [by |-> "none", calls |-> << >>, toasts |-> << >>]
\* if (!confirm(...)) return: nothing is called, nothing is reported
Declined == [by |-> "confirm", calls |-> << >>, toasts |-> << >>]
\* the awaited gateway call threw: the catch block logs and shows one
\* toast.error, and the handler returns
Caught(call) == [by |-> "catch", calls |-> <<call>>, toasts |-> <<"error">>]

\* ------------------------------------------------------------------ clock
Tick ==
  /\ now < MaxTime
  /\ now' = now + 1
  /\ UNCHANGED <<extVars, user, formData, papers, adminPapers, reviewed, payVars, msgVars>>

\* lumi.auth.onAuthChange(({ user }) => setUser(user))
AuthChange(u) ==
  /\ user' = u
  /\ UNCHANGED <<extVars, now, formData, papers, adminPapers, reviewed, payVars, msgVars>>

\* ====================================================== Submission lifecycle
NoFile == [name |-> "", type |-> "", size |-> -1]
InitForm ==
  [title |-> EmptyStr, abstract |-> EmptyStr, keywords |-> EmptyStr,
   file |-> NoFile]

PaperAllowedTypes ==
  {"application/pdf", "application/msword",
   "application/vnd.openxmlformats-officedocument.wordprocessingml.document"}

\* the maxLength attribute of the form's inputs (keywords has none)
MaxLengthOf(name) ==
  CASE name = "title" -> TitleMaxLength
    [] name = "abstract" -> AbstractMaxLength
    [] OTHER -> -1

\* the values the input element lets through
Typable(name, value) ==
  MaxLengthOf(name) >= 0 => Length(value) <= MaxLengthOf(name)

\* setFormData(prev => ({ ...prev, [name]: value }))
SubmitPaper_handleInputChange(name, value) ==
  /\ Typable(name, value)
  /\ formData' = [formData EXCEPT ![name] = value]
  /\ UNCHANGED <<extVars, now, user, papers, adminPapers, reviewed, payVars, msgVars>>

SubmitPaper_fileAccepted(file) ==
  IF file.type \notin PaperAllowedTypes THEN FALSE
  ELSE IF file.size > PaperMaxSize THEN FALSE
  ELSE TRUE

SubmitPaper_selectFile(fd, file) ==
  IF SubmitPaper_fileAccepted(file) THEN [fd EXCEPT !.file = file] ELSE fd

SubmitPaper_handleFileSelect(file) ==
  /\ formData' = SubmitPaper_selectFile(formData, file)
  /\ UNCHANGED <<extVars, now, user, papers, adminPapers, reviewed, payVars, msgVars>>

\* the "Remove file" button: setFormData(prev => ({ ...prev, file: null }))
SubmitPaper_removeFile ==
  /\ formData.file # NoFile
  /\ formData' = [formData EXCEPT !.file = NoFile]
  /\ UNCHANGED <<extVars, now, user, papers, adminPapers, reviewed, payVars, msgVars>>

\* mutant: the length of the title is tested before its emptiness
validateFormError_mut(fd) ==
  IF Length(fd.title) < TitleMinLength
    THEN "Title must be at least 5 characters long"
  ELSE IF Falsy(Trim(fd.title)) THEN "Please enter a paper title"
  ELSE IF Falsy(Trim(fd.abstract)) THEN "Please enter an abstract"
  ELSE IF Length(fd.abstract) < AbstractMinLength
    THEN "Abstract must be at least 100 characters long"
  ELSE IF Falsy(Trim(fd.keywords)) THEN "Please enter keywords"
  ELSE IF fd.file = NoFile THEN "Please upload a paper file"
  ELSE ""

\* the message of the first failing check, "" when the form passes
validateFormError(fd) ==
  IF Falsy(Trim(fd.title)) THEN "Please enter a paper title"
  ELSE IF Length(fd.title) < TitleMinLength
    THEN "Title must be at least 5 characters long"
  ELSE IF Falsy(Trim(fd.abstract)) THEN "Please enter an abstract"
  ELSE IF Length(fd.abstract) < AbstractMinLength
    THEN "Abstract must be at least 100 characters long"
  ELSE IF Falsy(Trim(fd.keywords)) THEN "Please enter keywords"
  ELSE IF fd.file = NoFile THEN "Please upload a paper file"
  ELSE ""

validateForm(fd) == validateFormError(fd) = ""

\* mutant: the record is created already stamped as reviewed
paperData_mut(fd, uid, t) ==
  [title |-> Trim(fd.title),
   abstract |-> Trim(fd.abstract),
   keywords |-> Trim(fd.keywords),
   status |-> "submitted",
   user_id |-> uid,
   fileName |-> fd.file.name,
   fileSize |-> fd.file.size,
   filePath |-> <<"/uploads/papers/", t, fd.file.name>>,
   submittedAt |-> t,
   reviewedAt |-> t,
   createdAt |-> t,
   updatedAt |-> t]

paperData(fd, uid, t) ==
  [title |-> Trim(fd.title),
   abstract |-> Trim(fd.abstract),
   keywords |-> Trim(fd.keywords),
   status |-> "submitted",
   user_id |-> uid,
   fileName |-> fd.file.name,
   fileSize |-> fd.file.size,
   filePath |-> <<"/uploads/papers/", t, fd.file.name>>,
   submittedAt |-> t,
   createdAt |-> t,
   updatedAt |-> t]

NextPaperId == Cardinality(DOMAIN papers) + 1

\* ok: papers.create resolves; otherwise it throws and the catch reports it.
\* After a successful create the page navigates away and the form unmounts.
\* (at most `most` papers are ever created)
SubmitPaper_handleSubmitUpTo(most, ok) ==
  /\ Cardinality(DOMAIN papers) < most
  /\ IF ~validateForm(formData) \/ user = NoUser
       THEN UNCHANGED <<papers, formData>>
       ELSE IF ok
         THEN /\ papers' = GatewayCreate(papers, NextPaperId,
                                         paperData(formData, user, now))
              /\ formData' = InitForm
         ELSE UNCHANGED <<papers, formData>>
  /\ UNCHANGED <<extVars, now, user, adminPapers, reviewed, payVars, msgVars>>

SubmitPaper_handleSubmit(ok) == SubmitPaper_handleSubmitUpTo(MaxPapers, ok)

\* the sort option of AdminPapers.fetchPapers
fetchPapers(a, ok) ==
  /\ adminPapers' = IF ok
        THEN [adminPapers EXCEPT ![a] = GatewayList(papers, "submittedAt")]
        ELSE adminPapers
  /\ UNCHANGED <<extVars, now, user, formData, papers, reviewed, payVars, msgVars>>

statusOptions ==
  {"submitted", "under_review", "accepted", "rejected", "revision_required"}
Comments == {"", "c1"}

\* mutant: the update carries no reviewedAt
reviewUpdateData_unstamped(newStatus, comments, t) ==
  [status |-> newStatus,
   reviewerComments |-> comments,
   updatedAt |-> t]

\* mutant: the update stamps the submission time again
reviewUpdateData_restamp(newStatus, comments, t) ==
  [status |-> newStatus,
   reviewerComments |-> comments,
   reviewedAt |-> t,
   submittedAt |-> t,
   updatedAt |-> t]

\* mutant: the comments are left out of the update
reviewUpdateData_mut(newStatus, comments, t) ==
  [status |-> newStatus,
   reviewedAt |-> t,
   updatedAt |-> t]

reviewUpdateData(newStatus, comments, t) ==
  [status |-> newStatus,
   reviewerComments |-> comments,
   reviewedAt |-> t,
   updatedAt |-> t]

\* mutant: the session's list is updated before the gateway has answered
AdminPapers_handleStatusUpdate_optimistic(a, paperId, newStatus, comments, ok) ==
  /\ paperId \in Ids(adminPapers[a])
  /\ adminPapers' = [adminPapers EXCEPT ![a] =
        MapMerge(@, paperId, reviewUpdateData(newStatus, comments, now))]
  /\ IF ok /\ paperId \in DOMAIN papers
       THEN /\ papers' = GatewayUpdate(papers, paperId,
                             reviewUpdateData(newStatus, comments, now))
            /\ reviewed' = reviewed \cup {paperId}
            /\ reviewModal' = [reviewModal EXCEPT ![a] = NoModal]
            /\ UNCHANGED aborted
       ELSE /\ aborted' = Caught("papers.update")
            /\ UNCHANGED <<papers, reviewed, reviewModal>>
  /\ UNCHANGED <<replyModal, removed, route, repVars, profVars, now, user,
                 formData, payVars, msgVars>>

\* The review modal is opened on a paper of the session's list; the status
\* comes from the select over statusOptions, the comments from the textarea.
AdminPapers_handleStatusUpdate(a, paperId, newStatus, comments, ok) ==
  /\ paperId \in Ids(adminPapers[a])
  /\ IF ok /\ paperId \in DOMAIN papers
       THEN /\ papers' = GatewayUpdate(papers, paperId,
                             reviewUpdateData(newStatus, comments, now))
            /\ adminPapers' = [adminPapers EXCEPT ![a] =
                  MapMerge(@, paperId,
                           reviewUpdateData(newStatus, comments, now))]
            /\ reviewed' = reviewed \cup {paperId}
            /\ reviewModal' = [reviewModal EXCEPT ![a] = NoModal]
            /\ UNCHANGED aborted
       ELSE /\ aborted' = Caught("papers.update")
            /\ UNCHANGED <<papers, adminPapers, reviewed, reviewModal>>
  /\ UNCHANGED <<removed, route, repVars, profVars, replyModal, now, user,
                 formData, payVars, msgVars>>

\* openReviewModal(paper), on a row of the session's list
AdminPapers_openReviewModal(a, paperId) ==
  /\ paperId \in Ids(adminPapers[a])
  /\ reviewModal' = [reviewModal EXCEPT ![a] =
       LET paper == Find(adminPapers[a], paperId)
       IN [open |-> TRUE, paper |-> paper, status |-> paper.status,
           comments |-> IF Has(paper, "reviewerComments")
                          THEN paper.reviewerComments ELSE ""]]
  /\ UNCHANGED <<replyModal, aborted, removed, route, repVars, profVars, now,
                 user, subVars, payVars, msgVars>>

\* the select and the textarea of the modal:
\* setReviewModal(prev => prev ? { ...prev, [k]: v } : null)
AdminPapers_setReviewModal(a, k, v) ==
  /\ reviewModal[a].open
  /\ \/ k = "status" /\ v \in statusOptions
     \/ k = "comments" /\ v \in Comments
  /\ reviewModal' = [reviewModal EXCEPT ![a][k] = v]
  /\ UNCHANGED <<replyModal, aborted, removed, route, repVars, profVars, now,
                 user, subVars, payVars, msgVars>>

\* the Update Review button of the modal
AdminPapers_updateReview(a, ok) ==
  /\ reviewModal[a].open
  /\ AdminPapers_handleStatusUpdate(a, reviewModal[a].paper._id,
                                    reviewModal[a].status,
                                    reviewModal[a].comments, ok)

\* ------------------------------------------------------------ input sets
Titles == {EmptyStr, Str(2, 0, 0), Str(0, 4, 0), Str(1, 3, 1), Str(0, 5, 0)}
Abstracts ==
  {EmptyStr, Str(0, 99, 0), Str(1, 99, 0), Str(0, 100, 0), Str(0, 2000, 0),
   Str(0, 2001, 0)}
KeywordTexts == {EmptyStr, Str(1, 0, 0), Str(0, 8, 0)}
PaperFiles ==
  {[name |-> "p.pdf", type |-> "application/pdf", size |-> PaperMaxSize],
   [name |-> "big.pdf", type |-> "application/pdf", size |-> PaperMaxSize + 1],
   [name |-> "p.docx",
    type |-> "application/vnd.openxmlformats-officedocument.wordprocessingml.document",
    size |-> 1024],
   [name |-> "p.txt", type |-> "text/plain", size |-> 1024]}

\* ========================================================= Payment lifecycle
InitPaymentDetails ==
  [amount |-> 450, currency |-> "USD", paymentMethod |-> "bank_transfer",
   notes |-> ""]

SlipAllowedTypes == {"image/jpeg", "image/png", "image/jpg", "application/pdf"}

\* mutant: the type of the file is not looked at
Payments_fileAccepted_anyType(file) ==
  IF file.size > SlipMaxSize THEN FALSE
  ELSE TRUE

\* mutant: the size limit excludes a file of exactly the maximum size
Payments_fileAccepted_mut(file) ==
  IF file.type \notin SlipAllowedTypes THEN FALSE
  ELSE IF file.size >= SlipMaxSize THEN FALSE
  ELSE TRUE

Payments_fileAccepted(file) ==
  IF file.type \notin SlipAllowedTypes THEN FALSE
  ELSE IF file.size > SlipMaxSize THEN FALSE
  ELSE TRUE

\* file is e.target.files?.[0]; NoFile when the picker was cancelled
Payments_handleFileSelect(file) ==
  /\ selectedFile' = IF file = NoFile THEN selectedFile
                     ELSE IF Payments_fileAccepted(file) THEN file
                     ELSE selectedFile
  /\ offered' = IF file = NoFile THEN offered ELSE file
  /\ UNCHANGED <<extVars, now, user, subVars, paymentDetails, myPayments, payments,
                 adminPayments, everCompleted, msgVars>>

\* the remove button of the selected slip: setSelectedFile(null)
Payments_removeFile ==
  /\ selectedFile # NoFile
  /\ selectedFile' = NoFile
  /\ offered' = NoFile
  /\ UNCHANGED <<extVars, now, user, subVars, paymentDetails, myPayments, payments,
                 adminPayments, everCompleted, msgVars>>

FeeSchedule == {450, 550, 350, 200}
PaymentMethods == {"bank_transfer", "credit_card", "paypal", "other"}
Currencies == {"USD", "EUR", "CNY", "INR"}

\* the selects of the form: setPaymentDetails(prev => ({ ...prev, [k]: v }))
Payments_setPaymentDetails(k, v) ==
  /\ \/ k = "amount" /\ v \in FeeSchedule
     \/ k = "currency" /\ v \in Currencies
     \/ k = "paymentMethod" /\ v \in PaymentMethods
  /\ paymentDetails' = [paymentDetails EXCEPT ![k] = v]
  /\ UNCHANGED <<extVars, now, user, subVars, selectedFile, myPayments, payments,
                 adminPayments, everCompleted, offered, msgVars>>

\* paymentDetails.notes || `${paymentMethod} payment for ICHR2026 registration`
notesOrDefault(pd) ==
  IF pd.notes = "" THEN <<pd.paymentMethod, " payment for ICHR2026 registration">>
  ELSE <<pd.notes>>

\* mutant: the record is created as already completed
paymentData_mut(pd, file, uid, t) ==
  [user_id |-> uid,
   amount |-> pd.amount,
   currency |-> pd.currency,
   status |-> "completed",
   paymentMethod |-> pd.paymentMethod,
   paymentSlipPath |-> <<"/uploads/payments/", t, file.name>>,
   paymentSlipName |-> file.name,
   transactionId |-> <<"TXN", t>>,
   notes |-> notesOrDefault(pd),
   createdAt |-> t,
   updatedAt |-> t]

paymentData(pd, file, uid, t) ==
  [user_id |-> uid,
   amount |-> pd.amount,
   currency |-> pd.currency,
   status |-> "pending",
   paymentMethod |-> pd.paymentMethod,
   paymentSlipPath |-> <<"/uploads/payments/", t, file.name>>,
   paymentSlipName |-> file.name,
   transactionId |-> <<"TXN", t>>,
   notes |-> notesOrDefault(pd),
   createdAt |-> t,
   updatedAt |-> t]

NextPaymentId == Cardinality(DOMAIN payments) + 1

\* Payments.fetchPayments: the signed-in user's payments, newest first
Payments_fetched(coll, u, listOk, old) ==
  IF u = NoUser THEN old
  ELSE IF listOk THEN GatewayListFor(coll, u, "createdAt")
  ELSE old

Payments_fetchPayments(listOk) ==
  /\ myPayments' = Payments_fetched(payments, user, listOk, myPayments)
  /\ UNCHANGED <<extVars, now, user, subVars, selectedFile, paymentDetails, payments,
                 adminPayments, everCompleted, offered, msgVars>>

\* onAuthChange on the Payments page: fetchPayments is rebuilt for the new
\* user and the effect that depends on it runs it again
Payments_authChange(u, listOk) ==
  /\ user' = u
  /\ myPayments' = Payments_fetched(payments, u, listOk, myPayments)
  /\ UNCHANGED <<extVars, now, subVars, selectedFile, paymentDetails, payments,
                 adminPayments, everCompleted, offered, msgVars>>

\* ok: payments.create resolves; listOk: the list call of the refresh resolves
\* (at most `most` payments are ever created)
Payments_handlePaymentSubmitUpTo(most, ok, listOk) ==
  /\ Cardinality(DOMAIN payments) < most
  /\ IF user = NoUser \/ selectedFile = NoFile
       THEN UNCHANGED <<payments, selectedFile, paymentDetails, myPayments,
                        offered>>
       ELSE IF ok
         THEN /\ payments' = GatewayCreate(payments, NextPaymentId,
                   paymentData(paymentDetails, selectedFile, user, now))
              /\ selectedFile' = NoFile
              /\ offered' = NoFile
              /\ paymentDetails' = [paymentDetails EXCEPT !.notes = ""]
              /\ myPayments' =
                   Payments_fetched(payments', user, listOk, myPayments)
         ELSE UNCHANGED <<payments, selectedFile, paymentDetails, myPayments,
                          offered>>
  /\ UNCHANGED <<extVars, now, user, subVars, adminPayments, everCompleted, msgVars>>

Payments_handlePaymentSubmit(ok, listOk) ==
  Payments_handlePaymentSubmitUpTo(MaxPayments, ok, listOk)

PaymentStatuses == {"pending", "completed", "failed", "refunded"}

\* mutant: the status of the button is written, whatever was asked for
statusUpdateData_fixed(newStatus, t) ==
  [status |-> "completed",
   processedAt |-> t,
   updatedAt |-> t]

\* mutant: processedAt is stamped on every status update
statusUpdateData_mut(newStatus, t) ==
  [status |-> newStatus,
   processedAt |-> t,
   updatedAt |-> t]

statusUpdateData(newStatus, t) ==
  [status |-> newStatus,
   processedAt |-> IF newStatus = "completed" THEN t ELSE Undefined,
   updatedAt |-> t]

\* paymentsData.filter(p => p.status === status)
WithStatus(list, status) == SelectSeq(list, LAMBDA p : p.status = status)

\* list.reduce((sum, p) => sum + p.amount, 0)
RECURSIVE SumAmount(_)
SumAmount(list) ==
  IF list = << >> THEN 0 ELSE list[1].amount + SumAmount(Tail(list))

\* method.replace('_', ' ').replace(/\b\w/g, l => l.toUpperCase())
methodLabel(method) ==
  CASE method = "bank_transfer" -> "Bank Transfer"
    [] method = "credit_card" -> "Credit Card"
    [] method = "paypal" -> "Paypal"
    [] method = "other" -> "Other"

\* toLocaleDateString('en-US', { month: 'short', year: 'numeric' }) of a
\* time in ticks: a calendar month lasts two ticks
monthLabel(t) == <<"month", t \div 2>>

\* acc[key] = (acc[key] || 0) + payment.amount, for the completed payments;
\* acc is kept as Object.entries lists it, in insertion order
AddRevenue(acc, key, amount) ==
  IF \E i \in DOMAIN acc : acc[i].key = key
    THEN [i \in DOMAIN acc |->
            IF acc[i].key = key
              THEN [key |-> key, amount |-> acc[i].amount + amount]
              ELSE acc[i]]
    ELSE Append(acc, [key |-> key, amount |-> amount])

\* mutant: the grouping forgets the test on the status
RECURSIVE methodStats_mut(_, _)
methodStats_mut(list, acc) ==
  IF list = << >> THEN acc
  ELSE methodStats_mut(Tail(list),
         AddRevenue(acc, list[1].paymentMethod, list[1].amount))

\* paymentsData.reduce(..., {}) grouping by paymentMethod
RECURSIVE methodStats(_, _)
methodStats(list, acc) ==
  IF list = << >> THEN acc
  ELSE methodStats(Tail(list),
         IF list[1].status = "completed"
           THEN AddRevenue(acc, list[1].paymentMethod, list[1].amount)
           ELSE acc)

\* paymentsData.reduce(..., {}) grouping by the month of createdAt
RECURSIVE monthlyStats(_, _)
monthlyStats(list, acc) ==
  IF list = << >> THEN acc
  ELSE monthlyStats(Tail(list),
         IF list[1].status = "completed"
           THEN AddRevenue(acc, monthLabel(list[1].createdAt), list[1].amount)
           ELSE acc)

\* Array.prototype.slice(-n)
SliceLast(seq, n) ==
  IF Len(seq) <= n THEN seq ELSE SubSeq(seq, Len(seq) - n + 1, Len(seq))
\* Array.prototype.slice(0, n)
SliceFirst(seq, n) == IF Len(seq) <= n THEN seq ELSE SubSeq(seq, 1, n)

InitFinancialStats ==
  [totalRevenue |-> 0, pendingPayments |-> 0, completedPayments |-> 0,
   failedPayments |-> 0, revenueByMethod |-> << >>, revenueByMonth |-> << >>]

revenueByMethod(paymentsData) ==
  LET stats == methodStats(paymentsData, << >>)
  IN [i \in DOMAIN stats |->
        [method |-> methodLabel(stats[i].key), amount |-> stats[i].amount]]

revenueByMonth(paymentsData) ==
  LET stats == monthlyStats(paymentsData, << >>)
  IN SliceLast([i \in DOMAIN stats |->
                  [month |-> stats[i].key, amount |-> stats[i].amount]], 6)

\* the statistics fetchPayments computes from the list it received
financialStats(paymentsData) ==
  [totalRevenue |-> SumAmount(WithStatus(paymentsData, "completed")),
   pendingPayments |-> Len(WithStatus(paymentsData, "pending")),
   completedPayments |-> Len(WithStatus(paymentsData, "completed")),
   failedPayments |-> Len(WithStatus(paymentsData, "failed")),
   revenueByMethod |-> revenueByMethod(paymentsData),
   revenueByMonth |-> revenueByMonth(paymentsData)]

\* AdminFinancials.fetchPayments: every payment, newest first, and the
\* statistics of that list
AdminFinancials_fetchPayments(a, listOk) ==
  /\ IF listOk
       THEN /\ adminPayments' = [adminPayments EXCEPT ![a] =
                                   GatewayList(payments, "createdAt")]
            /\ finStats' = [finStats EXCEPT ![a] =
                 financialStats(GatewayList(payments, "createdAt"))]
       ELSE UNCHANGED <<adminPayments, finStats>>
  /\ UNCHANGED <<uiVars, removed, route, mySubmissions, dashStats, profVars, now, user,
                 subVars, selectedFile, paymentDetails, myPayments,
                 payments, everCompleted, offered, msgVars>>

\* ok: payments.update resolves; listOk: the list call of the refresh that
\* follows the local merge resolves.  newStatus is the handler's parameter.
AdminFinancials_handleStatusUpdate(a, paymentId, newStatus, ok, listOk) ==
  /\ paymentId \in Ids(adminPayments[a])
  /\ IF ok /\ paymentId \in DOMAIN payments
       THEN /\ payments' = GatewayUpdate(payments, paymentId,
                                         statusUpdateData(newStatus, now))
            /\ adminPayments' = [adminPayments EXCEPT ![a] =
                 IF listOk THEN GatewayList(payments', "createdAt")
                 ELSE MapMerge(@, paymentId, statusUpdateData(newStatus, now))]
            /\ finStats' = IF listOk
                 THEN [finStats EXCEPT ![a] =
                         financialStats(GatewayList(payments', "createdAt"))]
                 ELSE finStats
            /\ everCompleted' = IF newStatus = "completed"
                                THEN everCompleted \cup {paymentId}
                                ELSE everCompleted
            /\ UNCHANGED aborted
       ELSE /\ aborted' = Caught("payments.update")
            /\ UNCHANGED <<payments, adminPayments, everCompleted, finStats>>
  /\ UNCHANGED <<reviewModal, replyModal, removed, route, mySubmissions,
                 dashStats, profVars, now, user, subVars, selectedFile,
                 paymentDetails, myPayments, offered, msgVars>>

SlipFiles ==
  {[name |-> "slip.png", type |-> "image/png", size |-> 4 * MiB],
   [name |-> "slip.pdf", type |-> "application/pdf", size |-> SlipMaxSize],
   [name |-> "slip.jpg", type |-> "image/jpeg", size |-> 6 * MiB],
   [name |-> "slip.pdf", type |-> "application/pdf", size |-> SlipMaxSize + 1],
   [name |-> "slip.txt", type |-> "text/plain", size |-> 1024],
   NoFile}
FinanceSessions == {"a1"}

\* ========================================================= Inquiry lifecycle
Priorities == {"low", "medium", "high", "urgent"}

\* submitInquiry(name, email, subject, body, priority, category), as the
\* specification describes it: the contact form is not among the sources
inquiryData(priority, category, t) ==
  [name |-> "n", email |-> "e", subject |-> "s", body |-> "b",
   isRead |-> FALSE,
   priority |-> priority,
   category |-> category,
   createdAt |-> t]

submitInquiryUpTo(most, priority, category, ok) ==
  /\ msgSeq < most
  /\ IF ok
       THEN /\ messages' = GatewayCreate(messages, msgSeq + 1,
                                         inquiryData(priority, category, now))
            /\ msgSeq' = msgSeq + 1
       ELSE UNCHANGED <<messages, msgSeq>>
  /\ UNCHANGED <<extVars, now, user, subVars, payVars, adminMessages, markedRead>>

submitInquiry(priority, category, ok) ==
  submitInquiryUpTo(MaxMessages, priority, category, ok)

AdminMessages_fetchMessages(a, ok) ==
  /\ adminMessages' = IF ok
       THEN [adminMessages EXCEPT ![a] = GatewayList(messages, "createdAt")]
       ELSE adminMessages
  /\ UNCHANGED <<extVars, now, user, subVars, payVars, messages, msgSeq, markedRead>>

\* mutant: the flag is toggled, which clears it on a message that is read
markReadUpdateData_mut(t) == [isRead |-> FALSE, updatedAt |-> t]

markReadUpdateData(t) == [isRead |-> TRUE, updatedAt |-> t]
markReadLocalData == [isRead |-> TRUE]

\* ok: messages.update resolves; an update of a deleted message throws
AdminMessages_handleMarkAsRead(a, messageId, ok) ==
  /\ IF ok /\ messageId \in DOMAIN messages
       THEN /\ messages' = GatewayUpdate(messages, messageId,
                                         markReadUpdateData(now))
            /\ adminMessages' = [adminMessages EXCEPT ![a] =
                 MapMerge(@, messageId, markReadLocalData)]
            /\ markedRead' = markedRead \cup {<<a, messageId>>}
            /\ UNCHANGED aborted
       ELSE /\ aborted' = Caught("messages.update")
            /\ UNCHANGED <<messages, adminMessages, markedRead>>
  /\ UNCHANGED <<reviewModal, replyModal, removed, route, repVars, profVars,
                 now, user, subVars, payVars, msgSeq>>

\* a click on a row of the session's list; setSelectedMessage only feeds the
\* detail dialog
AdminMessages_handleViewMessage(a, messageId, ok) ==
  /\ messageId \in Ids(adminMessages[a])
  /\ IF ~Find(adminMessages[a], messageId).isRead
       THEN AdminMessages_handleMarkAsRead(a, messageId, ok)
       ELSE UNCHANGED vars

\* mutant: the reply does not mark the message as read
replyUpdateData_mut(response, t) ==
  [adminResponse |-> response,
   respondedAt |-> t,
   respondedBy |-> "admin",
   updatedAt |-> t]

replyUpdateData(response, t) ==
  [adminResponse |-> response,
   respondedAt |-> t,
   respondedBy |-> "admin",
   isRead |-> TRUE,
   updatedAt |-> t]

\* mutant: the session's copy is not given the responder
replyLocalData_mut(response, t) ==
  [adminResponse |-> response,
   respondedAt |-> t,
   isRead |-> TRUE]

replyLocalData(response, t) ==
  [adminResponse |-> response,
   respondedAt |-> t,
   respondedBy |-> "admin",
   isRead |-> TRUE]

\* mutant: the button tests the response without trimming it
replyEnabled_mut(response) == ~Falsy(response)

\* the Send Reply button is disabled while the response is blank
replyEnabled(response) == ~Falsy(Trim(response))

\* the reply dialog is opened on a message of the session's list
AdminMessages_handleSendReply(a, messageId, response, ok) ==
  /\ messageId \in Ids(adminMessages[a])
  /\ replyEnabled(response)
  /\ IF ok /\ messageId \in DOMAIN messages
       THEN /\ messages' = GatewayUpdate(messages, messageId,
                                         replyUpdateData(response, now))
            /\ adminMessages' = [adminMessages EXCEPT ![a] =
                 MapMerge(@, messageId, replyLocalData(response, now))]
            /\ replyModal' = [replyModal EXCEPT ![a] = NoModal]
            /\ UNCHANGED aborted
       ELSE /\ aborted' = Caught("messages.update")
            /\ UNCHANGED <<messages, adminMessages, replyModal>>
  /\ UNCHANGED <<reviewModal, removed, route, repVars, profVars, now, user,
                 subVars, payVars, msgSeq, markedRead>>

\* mutant: the answer to the confirm() dialog is not looked at
AdminMessages_handleDeleteMessage_mut(a, messageId, confirmed, ok) ==
  /\ messageId \in Ids(adminMessages[a])
  /\ IF ok /\ messageId \in DOMAIN messages
       THEN /\ messages' = GatewayDelete(messages, messageId)
            /\ adminMessages' = [adminMessages EXCEPT ![a] =
                 FilterOut(@, messageId)]
            /\ removed' = removed \cup {<<a, messageId>>}
            /\ UNCHANGED aborted
       ELSE /\ aborted' = Caught("messages.delete")
            /\ UNCHANGED <<messages, adminMessages, removed>>
  /\ UNCHANGED <<reviewModal, replyModal, route, repVars, profVars, now, user,
                 subVars, payVars, msgSeq, markedRead>>

\* confirmed: the answer to the confirm() dialog; ok: messages.delete
\* resolves; a delete of a message that is already gone throws
AdminMessages_handleDeleteMessage(a, messageId, confirmed, ok) ==
  /\ messageId \in Ids(adminMessages[a])
  /\ IF ~confirmed
       THEN /\ aborted' = Declined
            /\ UNCHANGED <<messages, adminMessages, removed>>
       ELSE IF ok /\ messageId \in DOMAIN messages
         THEN /\ messages' = GatewayDelete(messages, messageId)
              /\ adminMessages' = [adminMessages EXCEPT ![a] =
                   FilterOut(@, messageId)]
              /\ removed' = removed \cup {<<a, messageId>>}
              /\ UNCHANGED aborted
         ELSE /\ aborted' = Caught("messages.delete")
              /\ UNCHANGED <<messages, adminMessages, removed>>
  /\ UNCHANGED <<reviewModal, replyModal, route, repVars, profVars, now, user,
                 subVars, payVars, msgSeq, markedRead>>

Replies == {EmptyStr, Str(2, 0, 0), Str(0, 4, 0), Str(1, 4, 1)}

\* openReplyModal(message), on a row of the session's list
AdminMessages_openReplyModal(a, messageId) ==
  /\ messageId \in Ids(adminMessages[a])
  /\ replyModal' = [replyModal EXCEPT ![a] =
       [open |-> TRUE, message |-> Find(adminMessages[a], messageId),
        response |-> EmptyStr]]
  /\ UNCHANGED <<reviewModal, aborted, removed, route, repVars, profVars, now,
                 user, subVars, payVars, msgVars>>

\* the textarea: setReplyModal(prev => prev ? { ...prev, response } : null)
AdminMessages_setReplyModal(a, response) ==
  /\ replyModal[a].open
  /\ replyModal' = [replyModal EXCEPT ![a].response = response]
  /\ UNCHANGED <<reviewModal, aborted, removed, route, repVars, profVars, now,
                 user, subVars, payVars, msgVars>>

\* the Send Reply button of the modal
AdminMessages_sendReply(a, ok) ==
  /\ replyModal[a].open
  /\ AdminMessages_handleSendReply(a, replyModal[a].message._id,
                                   replyModal[a].response, ok)

\* ============================================================ Owner's list
\* MySubmissions.fetchSubmissions: the signed-in user's papers, newest first
MySubmissions_fetchSubmissions(ok) ==
  /\ mySubmissions' = IF user = NoUser THEN mySubmissions
                       ELSE IF ok
                         THEN GatewayListFor(papers, user, "submittedAt")
                       ELSE mySubmissions
  /\ UNCHANGED <<uiVars, removed, route, dashStats, finStats, profVars, now, user, subVars,
                 payVars, msgVars>>

\* onAuthChange on the MySubmissions page: fetchSubmissions is rebuilt for the
\* new user and the effect that depends on it runs it again
MySubmissions_authChange(u, ok) ==
  /\ user' = u
  /\ mySubmissions' = IF u = NoUser THEN mySubmissions
                       ELSE IF ok THEN GatewayListFor(papers, u, "submittedAt")
                       ELSE mySubmissions
  /\ UNCHANGED <<uiVars, removed, route, dashStats, finStats, profVars, now, subVars,
                 payVars, msgVars>>

\* ============================================================== User profile
\* a browser tab on the profile page: <<the signed-in user, tab number>>
ProfileTabs == {<<"u1", 1>>, <<"u1", 2>>, <<"u2", 1>>}
tabUser(t) == t[1]

ProfileFields ==
  {"fullName", "affiliation", "country", "bio", "phone", "website", "orcid",
   "researchInterests", "academicTitle", "participationType",
   "dietaryRequirements", "accommodationNeeds"}
InitProfileData == [f \in ProfileFields |-> ""]
IdleSave == [pc |-> "idle"]

\* list({ filter: { user_id } }): no sort is asked for
ProfilesOf(uid) == {i \in DOMAIN profiles : profiles[i].user_id = uid}

\* profile.field || '' for each field of the form
profileFormOf(profile) ==
  [f \in ProfileFields |-> IF f \in DOMAIN profile THEN profile[f] ELSE ""]

\* UserProfile.fetchProfile: list[0], when there is one, fills the form
UserProfile_fetchProfile(t, ok) ==
  /\ IF ok /\ ProfilesOf(tabUser(t)) # {}
       THEN \E i \in ProfilesOf(tabUser(t)) :
              profileData' = [profileData EXCEPT ![t] = profileFormOf(profiles[i])]
       ELSE UNCHANGED profileData
  /\ UNCHANGED <<uiVars, removed, route, repVars, profiles, profileSave, now, user, subVars,
                 payVars, msgVars>>

\* setProfileData(prev => ({ ...prev, [name]: value }))
UserProfile_handleProfileChange(t, name, value) ==
  /\ name \in ProfileFields
  /\ profileData' = [profileData EXCEPT ![t][name] = value]
  /\ UNCHANGED <<uiVars, removed, route, repVars, profiles, profileSave, now, user, subVars,
                 payVars, msgVars>>

profilePayload(form, uid, t) == Spread(form, [user_id |-> uid, updatedAt |-> t])

\* mutant: the save never looks for the existing profile and always creates
profileWrite_mut(existing, form, uid, t) ==
  [pc |-> "create",
   payload |-> Spread(profilePayload(form, uid, t), [createdAt |-> t])]

\* if (list && list.length > 0) update(list[0]._id, ...) else create(...);
\* existing is the _id of list[0], 0 when the list is empty
profileWrite(existing, form, uid, t) ==
  IF existing # 0
    THEN [pc |-> "update", id |-> existing,
          payload |-> profilePayload(form, uid, t)]
    ELSE [pc |-> "create",
          payload |-> Spread(profilePayload(form, uid, t), [createdAt |-> t])]

\* handleProfileSubmit up to the answer of the list call: the payload is
\* built and the write is chosen.  The Save button is disabled while a save
\* of the tab is in flight.
UserProfile_handleProfileSubmit_list(t, listOk) ==
  /\ profileSave[t].pc = "idle"
  /\ IF listOk
       THEN \E existing \in IF ProfilesOf(tabUser(t)) = {} THEN {0}
                             ELSE ProfilesOf(tabUser(t)) :
              profileSave' = [profileSave EXCEPT ![t] =
                profileWrite(existing, profileData[t], tabUser(t), now)]
       ELSE UNCHANGED profileSave
  /\ UNCHANGED <<uiVars, removed, route, repVars, profiles, profileData, now, user, subVars,
                 payVars, msgVars>>

NextProfileId == Cardinality(DOMAIN profiles) + 1

\* handleProfileSubmit from the write on: ok is whether the update or the
\* create resolves
UserProfile_handleProfileSubmit_write(t, ok) ==
  /\ profileSave[t].pc # "idle"
  /\ profileSave[t].pc = "create" => Cardinality(DOMAIN profiles) < MaxProfiles
  /\ profiles' =
       IF ~ok THEN profiles
       ELSE IF profileSave[t].pc = "update"
         THEN GatewayUpdate(profiles, profileSave[t].id, profileSave[t].payload)
       ELSE GatewayCreate(profiles, NextProfileId, profileSave[t].payload)
  /\ profileSave' = [profileSave EXCEPT ![t] = IdleSave]
  /\ UNCHANGED <<uiVars, removed, route, repVars, profileData, now, user, subVars, payVars,
                 msgVars>>

\* ================================================================ Dashboard
InitDashboardStats ==
  [totalUsers |-> 0, totalPapers |-> 0, totalPayments |-> 0,
   totalMessages |-> 0, papersByStatus |-> << >>, paymentsByStatus |-> << >>,
   recentActivity |-> << >>]

\* mutant: the filter of the second entry misspells the status
papersByStatus_mut(papersList) ==
  <<[status |-> "Submitted", count |-> Len(WithStatus(papersList, "submitted"))],
    [status |-> "Under Review",
     count |-> Len(WithStatus(papersList, "under-review"))],
    [status |-> "Accepted", count |-> Len(WithStatus(papersList, "accepted"))],
    [status |-> "Rejected", count |-> Len(WithStatus(papersList, "rejected"))],
    [status |-> "Revision Required",
     count |-> Len(WithStatus(papersList, "revision_required"))]>>

papersByStatus(papersList) ==
  <<[status |-> "Submitted", count |-> Len(WithStatus(papersList, "submitted"))],
    [status |-> "Under Review",
     count |-> Len(WithStatus(papersList, "under_review"))],
    [status |-> "Accepted", count |-> Len(WithStatus(papersList, "accepted"))],
    [status |-> "Rejected", count |-> Len(WithStatus(papersList, "rejected"))],
    [status |-> "Revision Required",
     count |-> Len(WithStatus(papersList, "revision_required"))]>>

paymentsByStatus(paymentsList) ==
  <<[status |-> "Pending", count |-> Len(WithStatus(paymentsList, "pending"))],
    [status |-> "Completed",
     count |-> Len(WithStatus(paymentsList, "completed"))],
    [status |-> "Failed", count |-> Len(WithStatus(paymentsList, "failed"))]>>

paperActivity(p) ==
  [type |-> "paper", title |-> <<"New paper submitted: ", p.title>>,
   time |-> p.submittedAt, icon |-> "FileText"]
paymentActivity(p) ==
  [type |-> "payment", title |-> <<"Payment ", p.status, ": $", p.amount>>,
   time |-> p.createdAt, icon |-> "DollarSign"]
messageActivity(m) ==
  [type |-> "message", title |-> <<"New message: ", m.subject>>,
   time |-> m.createdAt, icon |-> "MessageSquare"]

RemoveAt(seq, i) == SubSeq(seq, 1, i - 1) \o SubSeq(seq, i + 1, Len(seq))

\* items.sort((a, b) => time(b) - time(a)): the sort is stable
RECURSIVE SortByTimeDesc(_)
SortByTimeDesc(items) ==
  IF items = << >> THEN << >>
  ELSE LET i == CHOOSE j \in DOMAIN items :
                  /\ \A k \in DOMAIN items : items[k].time <= items[j].time
                  /\ \A k \in 1..(j - 1) : items[k].time < items[j].time
       IN <<items[i]>> \o SortByTimeDesc(RemoveAt(items, i))

\* mutant: the papers are taken from the end of the list
recentActivity_mut(papersList, paymentsList, messagesList) ==
  LET somePapers == SliceLast(papersList, 3)
      somePayments == SliceFirst(paymentsList, 3)
      someMessages == SliceFirst(messagesList, 2)
  IN SliceFirst(
       SortByTimeDesc(
         [i \in DOMAIN somePapers |-> paperActivity(somePapers[i])]
         \o [i \in DOMAIN somePayments |-> paymentActivity(somePayments[i])]
         \o [i \in DOMAIN someMessages |-> messageActivity(someMessages[i])]),
       8)

recentActivity(papersList, paymentsList, messagesList) ==
  LET somePapers == SliceFirst(papersList, 3)
      somePayments == SliceFirst(paymentsList, 3)
      someMessages == SliceFirst(messagesList, 2)
  IN SliceFirst(
       SortByTimeDesc(
         [i \in DOMAIN somePapers |-> paperActivity(somePapers[i])]
         \o [i \in DOMAIN somePayments |-> paymentActivity(somePayments[i])]
         \o [i \in DOMAIN someMessages |-> messageActivity(someMessages[i])]),
       8)

dashboardStats(papersList, paymentsList, messagesList, profilesList) ==
  [totalUsers |-> Len(profilesList),
   totalPapers |-> Len(papersList),
   totalPayments |-> Len(paymentsList),
   totalMessages |-> Len(messagesList),
   papersByStatus |-> papersByStatus(papersList),
   paymentsByStatus |-> paymentsByStatus(paymentsList),
   recentActivity |-> recentActivity(papersList, paymentsList, messagesList)]

\* stats.paymentsByStatus.find(p => p.status === label)?.count || 0
countOf(entries, label) ==
  IF \E i \in DOMAIN entries : entries[i].status = label
    THEN entries[CHOOSE i \in DOMAIN entries :
                   /\ entries[i].status = label
                   /\ \A j \in 1..(i - 1) : entries[j].status # label].count
    ELSE 0

\* mutant: the card multiplies by the regular fee
AdminDashboard_totalRevenue_mut(stats) ==
  countOf(stats.paymentsByStatus, "Completed") * 550

\* the Total Revenue card of the dashboard's Quick Stats
AdminDashboard_totalRevenue(stats) ==
  countOf(stats.paymentsByStatus, "Completed") * 450

\* AdminDashboard.fetchDashboardStats: ok is whether the four list calls of
\* the Promise.all all resolve
AdminDashboard_fetchDashboardStats(ok) ==
  /\ dashStats' = IF ok
       THEN dashboardStats(GatewayList(papers, "createdAt"),
                           GatewayList(payments, "createdAt"),
                           GatewayList(messages, "createdAt"),
                           GatewayList(profiles, "createdAt"))
       ELSE dashStats
  /\ UNCHANGED <<uiVars, removed, route, mySubmissions, finStats, profVars, now, user,
                 subVars, payVars, msgVars>>

Init ==
  /\ now = 0
  /\ user \in {NoUser, "u1"}
  /\ formData = InitForm
  /\ papers = << >>
  /\ adminPapers = [a \in Principals |-> << >>]
  /\ reviewed = {}
  /\ selectedFile = NoFile
  /\ paymentDetails = InitPaymentDetails
  /\ myPayments = << >>
  /\ payments = << >>
  /\ adminPayments = [a \in Principals |-> << >>]
  /\ everCompleted = {}
  /\ offered = NoFile
  /\ messages = << >>
  /\ msgSeq = 0
  /\ adminMessages = [a \in Principals |-> << >>]
  /\ markedRead = {}
  /\ removed = {}
  /\ route = "/"
  /\ mySubmissions = << >>
  /\ dashStats = InitDashboardStats
  /\ finStats = [a \in Principals |-> InitFinancialStats]
  /\ profiles = << >>
  /\ profileData = [t \in ProfileTabs |-> InitProfileData]
  /\ profileSave = [t \in ProfileTabs |-> IdleSave]
  /\ reviewModal = [a \in Principals |-> NoModal]
  /\ replyModal = [a \in Principals |-> NoModal]
  /\ aborted = NoAbort

\* the submitter's form, field by field
NextSubmit ==
  \/ \E u \in {NoUser, "u1"} : AuthChange(u)
  \/ \E v \in Titles : SubmitPaper_handleInputChange("title", v)
  \/ \E v \in Abstracts : SubmitPaper_handleInputChange("abstract", v)
  \/ \E v \in KeywordTexts : SubmitPaper_handleInputChange("keywords", v)
  \/ \E f \in PaperFiles : SubmitPaper_handleFileSelect(f)
  \/ SubmitPaper_removeFile
  \/ \E ok \in BOOLEAN : SubmitPaper_handleSubmit(ok)

SpecSubmit == Init /\ [][NextSubmit]_vars

\* The submitter types a title, an abstract and keywords and selects a file:
\* the three input changes and the file selection, in one step.
SubmitPaper_fillForm(t, a, k, f) ==
  /\ Typable("title", t) /\ Typable("abstract", a) /\ Typable("keywords", k)
  /\ formData' = SubmitPaper_selectFile(
                   [formData EXCEPT !.title = t, !.abstract = a,
                                    !.keywords = k], f)
  /\ formData' # formData
  /\ UNCHANGED <<extVars, now, user, papers, adminPapers, reviewed, payVars, msgVars>>

ReviewTitles == {Str(0, 5, 0), Str(1, 5, 0)}
ReviewAbstracts == {Str(0, 100, 0)}
ReviewKeywords == {Str(0, 8, 0)}
ReviewFiles ==
  {[name |-> "p.pdf", type |-> "application/pdf", size |-> PaperMaxSize]}
ReviewSessions == {"a1"}

\* one admin session reviewing the papers that are submitted
NextReview ==
  \/ Tick
  \/ \E t \in ReviewTitles, a \in ReviewAbstracts, k \in ReviewKeywords,
        f \in ReviewFiles : SubmitPaper_fillForm(t, a, k, f)
  \/ \E ok \in BOOLEAN : SubmitPaper_handleSubmit(ok)
  \/ \E a \in ReviewSessions, ok \in BOOLEAN : fetchPapers(a, ok)
  \/ \E a \in ReviewSessions, id \in 1..MaxPapers, s \in statusOptions,
        c \in Comments, ok \in BOOLEAN :
          AdminPapers_handleStatusUpdate(a, id, s, c, ok)

SpecReview == Init /\ [][NextReview]_vars


\* the Payments page of a user: slip selection, recording, own history
NextPayment ==
  \/ Tick
  \/ \E u \in {NoUser, "u1", "u2"}, listOk \in BOOLEAN :
       Payments_authChange(u, listOk)
  \/ \E f \in SlipFiles : Payments_handleFileSelect(f)
  \/ Payments_removeFile
  \/ \E v \in {450, 550} : Payments_setPaymentDetails("amount", v)
  \/ \E ok \in BOOLEAN, listOk \in BOOLEAN :
       Payments_handlePaymentSubmit(ok, listOk)
  \/ \E listOk \in BOOLEAN : Payments_fetchPayments(listOk)

SpecPayment == Init /\ [][NextPayment]_vars

ReconcileSlips ==
  {[name |-> "slip.png", type |-> "image/png", size |-> 4 * MiB]}

ReconcileStatuses == {"completed", "failed"}

\* one admin session reconciling the payments that users record
NextReconcile ==
  \/ Tick
  \/ \E f \in ReconcileSlips : Payments_handleFileSelect(f)
  \/ \E ok \in BOOLEAN, listOk \in BOOLEAN :
       Payments_handlePaymentSubmit(ok, listOk)
  \/ \E a \in FinanceSessions, listOk \in BOOLEAN :
       AdminFinancials_fetchPayments(a, listOk)
  \/ \E a \in FinanceSessions, id \in 1..MaxPayments, s \in ReconcileStatuses,
        ok \in BOOLEAN, listOk \in BOOLEAN :
          AdminFinancials_handleStatusUpdate(a, id, s, ok, listOk)

SpecReconcile == Init /\ [][NextReconcile]_vars

InquirySessions == {"a1"}

\* one admin session working on the inquiries that visitors send
NextInquiry ==
  \/ Tick
  \/ \E pr \in {"urgent", "low"}, cat \in {"general"}, ok \in BOOLEAN :
       submitInquiry(pr, cat, ok)
  \/ \E a \in InquirySessions, ok \in BOOLEAN :
       AdminMessages_fetchMessages(a, ok)
  \/ \E a \in InquirySessions, id \in 1..MaxMessages, ok \in BOOLEAN :
       AdminMessages_handleViewMessage(a, id, ok)
  \/ \E a \in InquirySessions, id \in 1..MaxMessages, r \in Replies,
        ok \in BOOLEAN :
          AdminMessages_handleSendReply(a, id, r, ok)
  \/ \E a \in InquirySessions, id \in 1..MaxMessages, confirmed \in BOOLEAN,
        ok \in BOOLEAN :
          AdminMessages_handleDeleteMessage(a, id, confirmed, ok)

SpecInquiry == Init /\ [][NextInquiry]_vars

ReadersReplies == {EmptyStr, Str(0, 4, 0)}

\* two admin sessions, each with its own and possibly stale list, marking
\* read, viewing and refreshing; the replies are written in the first one
NextReaders ==
  \/ Tick
  \/ \E pr \in {"urgent"}, cat \in {"general"}, ok \in BOOLEAN :
       submitInquiry(pr, cat, ok)
  \/ \E a \in Admins, ok \in BOOLEAN : AdminMessages_fetchMessages(a, ok)
  \/ \E a \in Admins, id \in 1..MaxMessages, ok \in BOOLEAN :
       AdminMessages_handleViewMessage(a, id, ok)
  \/ \E a \in InquirySessions, id \in 1..MaxMessages, r \in ReadersReplies,
        ok \in BOOLEAN :
          AdminMessages_handleSendReply(a, id, r, ok)

SpecReaders == Init /\ [][NextReaders]_vars

\* two admin sessions deleting inquiries while visitors keep sending them
NextRemove ==
  \/ \E ok \in BOOLEAN : submitInquiryUpTo(MaxRemovable, "low", "general", ok)
  \/ \E a \in Admins, ok \in BOOLEAN : AdminMessages_fetchMessages(a, ok)
  \/ \E a \in InquirySessions, id \in 1..MaxRemovable, ok \in BOOLEAN :
       AdminMessages_handleViewMessage(a, id, ok)
  \/ \E a \in Admins, id \in 1..MaxRemovable, confirmed \in BOOLEAN,
        ok \in BOOLEAN :
          AdminMessages_handleDeleteMessage(a, id, confirmed, ok)

SpecRemove == Init /\ [][NextRemove]_vars
\* ------------------------------------------------ snapshots for the reports
\* A paper as the collection holds it after its submission at time 0 and,
\* for a status other than 'submitted', one review.
SnapshotForm ==
  [title |-> Str(0, 5, 0), abstract |-> Str(0, 100, 0),
   keywords |-> Str(0, 8, 0),
   file |-> [name |-> "p.pdf", type |-> "application/pdf", size |-> 1024]]

SnapshotPaperAt(id, uid, status, t) ==
  LET created == Spread(paperData(SnapshotForm, uid, t), [_id |-> id])
  IN IF status = "submitted" THEN created
     ELSE Spread(created, JsonBody(reviewUpdateData(status, "c1", t)))

SnapshotPaper(id, uid, status) == SnapshotPaperAt(id, uid, status, 0)

\* An inquiry as the collection holds it after it was sent at time t.
SnapshotMessage(id, t) ==
  Spread(inquiryData("low", "general", t), [_id |-> id])

\* A payment as the collection holds it after it was recorded at time t and,
\* for a status other than 'pending', one status update.
SnapshotPayment(id, uid, status, amount, method, t) ==
  LET created ==
        Spread(paymentData([InitPaymentDetails EXCEPT !.amount = amount,
                                                      !.paymentMethod = method],
                           [name |-> "slip.png", type |-> "image/png",
                            size |-> 1024],
                           uid, t),
               [_id |-> id])
  IN IF status = "pending" THEN created
     ELSE Spread(created, JsonBody(statusUpdateData(status, t)))

\* the state of the pages when they open over collections that users and
\* admins have already filled
InitOver(time, papersSnapshot, paymentsSnapshot, messagesSnapshot) ==
  /\ now = time
  /\ user = "u1"
  /\ formData = InitForm
  /\ papers = papersSnapshot
  /\ adminPapers = [a \in Principals |-> << >>]
  /\ reviewed = {i \in DOMAIN papersSnapshot :
                   Has(papersSnapshot[i], "reviewedAt")}
  /\ selectedFile = NoFile
  /\ paymentDetails = InitPaymentDetails
  /\ myPayments = << >>
  /\ payments = paymentsSnapshot
  /\ adminPayments = [a \in Principals |-> << >>]
  /\ everCompleted = {i \in DOMAIN paymentsSnapshot :
                        Has(paymentsSnapshot[i], "processedAt")}
  /\ offered = NoFile
  /\ messages = messagesSnapshot
  /\ msgSeq = Len(messagesSnapshot)
  /\ adminMessages = [a \in Principals |-> << >>]
  /\ markedRead = {}
  /\ removed = {}
  /\ route = "/"
  /\ mySubmissions = << >>
  /\ dashStats = InitDashboardStats
  /\ finStats = [a \in Principals |-> InitFinancialStats]
  /\ profiles = << >>
  /\ profileData = [t \in ProfileTabs |-> InitProfileData]
  /\ profileSave = [t \in ProfileTabs |-> IdleSave]
  /\ reviewModal = [a \in Principals |-> NoModal]
  /\ replyModal = [a \in Principals |-> NoModal]
  /\ aborted = NoAbort

InitAt(time, papersSnapshot, paymentsSnapshot) ==
  InitOver(time, papersSnapshot, paymentsSnapshot, << >>)

InitWith(papersSnapshot, paymentsSnapshot) ==
  InitAt(0, papersSnapshot, paymentsSnapshot)

InitDashboard ==
  \E n \in 0..MaxCountedPapers :
    \E st \in [1..n -> statusOptions] :
      InitWith([i \in 1..n |-> SnapshotPaper(i, "u1", st[i])], << >>)

\* the dashboard computing its statistics over the collections
NextDashboard == \E ok \in BOOLEAN : AdminDashboard_fetchDashboardStats(ok)

SpecDashboard == InitDashboard /\ [][NextDashboard]_vars

SnapshotAmounts == {450, 200}
SnapshotMethods == {"bank_transfer", "other"}

InitFinancials ==
  \E n \in 0..MaxCountedPayments :
    \E st \in [1..n -> PaymentStatuses], am \in [1..n -> SnapshotAmounts],
       me \in [1..n -> SnapshotMethods] :
      InitWith(<< >>,
               [i \in 1..n |-> SnapshotPayment(i, "u1", st[i], am[i], me[i], 0)])

\* the financials page computing its statistics over the collection
NextFinancials ==
  \E a \in FinanceSessions, listOk \in BOOLEAN :
    AdminFinancials_fetchPayments(a, listOk)

SpecFinancials == InitFinancials /\ [][NextFinancials]_vars

OwnerStatuses == {"accepted"}
OwnerTitles == {Str(0, 5, 0)}

\* two users submitting and reading their own lists while an admin reviews
NextOwner ==
  \/ Tick
  \/ \E u \in Users, ok \in BOOLEAN : MySubmissions_authChange(u, ok)
  \/ \E t \in OwnerTitles, a \in ReviewAbstracts, k \in ReviewKeywords,
        f \in ReviewFiles : SubmitPaper_fillForm(t, a, k, f)
  \/ SubmitPaper_handleSubmitUpTo(MaxOwned, TRUE)
  \/ \E ok \in BOOLEAN : MySubmissions_fetchSubmissions(ok)
  \/ \E a \in ReviewSessions : fetchPapers(a, TRUE)
  \/ \E a \in ReviewSessions, id \in 1..MaxOwned, st \in OwnerStatuses :
       AdminPapers_handleStatusUpdate(a, id, st, "c1", TRUE)

SpecOwner == Init /\ [][NextOwner]_vars

\* ------------------------------------------------------------ the router
UserRoutes ==
  {"/dashboard/submit-paper", "/dashboard/my-submissions",
   "/dashboard/payments"}
AdminRoutes == {"/admin/papers", "/admin/financials", "/admin/messages"}
\* the requireAdmin attribute of the route's <ProtectedRoute>
requireAdmin(r) == r \in AdminRoutes

\* The page of route r is mounted for principal p: the state of the page
\* that was shown is dropped, the state of the new page is its initial
\* state, and its mount effect has fetched its list (r = "/" has no page).
App_show(p, r) ==
  /\ route' = r
  /\ formData' = InitForm
  /\ selectedFile' = NoFile
  /\ offered' = NoFile
  /\ paymentDetails' = InitPaymentDetails
  /\ myPayments' = IF r = "/dashboard/payments"
                    THEN GatewayListFor(payments, p, "createdAt") ELSE << >>
  /\ mySubmissions' = IF r = "/dashboard/my-submissions"
                       THEN GatewayListFor(papers, p, "submittedAt")
                       ELSE << >>
  /\ adminPapers' = [a \in Principals |->
                       IF a = p /\ r = "/admin/papers"
                       THEN GatewayList(papers, "submittedAt") ELSE << >>]
  /\ adminPayments' = [a \in Principals |->
                         IF a = p /\ r = "/admin/financials"
                         THEN GatewayList(payments, "createdAt") ELSE << >>]
  /\ finStats' = [a \in Principals |->
                    IF a = p /\ r = "/admin/financials"
                    THEN financialStats(GatewayList(payments, "createdAt"))
                    ELSE InitFinancialStats]
  /\ adminMessages' = [a \in Principals |->
                         IF a = p /\ r = "/admin/messages"
                         THEN GatewayList(messages, "createdAt") ELSE << >>]
  /\ reviewModal' = [a \in Principals |-> NoModal]
  /\ replyModal' = [a \in Principals |-> NoModal]
  /\ UNCHANGED <<now, papers, reviewed, payments, everCompleted, messages,
                 msgSeq, markedRead, removed, dashStats, profVars, aborted>>

\* a click on a navigation link: the route's element is rendered when its
\* <ProtectedRoute> lets the principal through
App_navigate(r) ==
  /\ r # route
  /\ ProtectedRoute(user, requireAdmin(r))
  /\ user' = user
  /\ App_show(user, r)

\* onAuthChange: the routes are rendered again for the new principal; a
\* page whose <ProtectedRoute> no longer lets the principal through is
\* unmounted and the router goes back to "/"; a user page that stays runs
\* the fetch effect that depends on the user again
App_authChange(u) ==
  /\ u # user
  /\ user' = u
  /\ IF route # "/" /\ ProtectedRoute(u, requireAdmin(route))
       THEN /\ myPayments' = IF route = "/dashboard/payments"
                              THEN GatewayListFor(payments, u, "createdAt")
                              ELSE myPayments
            /\ mySubmissions' = IF route = "/dashboard/my-submissions"
                                 THEN GatewayListFor(papers, u, "submittedAt")
                                 ELSE mySubmissions
            /\ UNCHANGED <<now, subVars, selectedFile, paymentDetails,
                           payments, adminPayments, everCompleted, offered,
                           msgVars, removed, route, dashStats, finStats,
                           profVars, uiVars>>
       ELSE App_show(u, "/")

AccessPrincipals == {NoUser, "u1", "a1"}
AccessSlips == {[name |-> "slip.png", type |-> "image/png", size |-> 4 * MiB]}

\* One browser whose principal changes, and the visitors' contact form.  A
\* handler runs on the page that is shown, for the signed-in principal.
NextAccess ==
  \/ \E u \in AccessPrincipals : App_authChange(u)
  \/ \E r \in UserRoutes \cup AdminRoutes : App_navigate(r)
  \/ /\ route = "/dashboard/submit-paper"
     /\ \/ \E t \in OwnerTitles, a \in ReviewAbstracts, k \in ReviewKeywords,
              f \in ReviewFiles : SubmitPaper_fillForm(t, a, k, f)
        \/ SubmitPaper_handleSubmit(TRUE)
  \/ /\ route = "/dashboard/payments"
     /\ \/ \E f \in AccessSlips : Payments_handleFileSelect(f)
        \/ Payments_handlePaymentSubmit(TRUE, TRUE)
  \/ submitInquiry("low", "general", TRUE)
  \/ /\ route = "/admin/papers"
     /\ \E id \in 1..MaxPapers :
          AdminPapers_handleStatusUpdate(user, id, "accepted", "c1", TRUE)
  \/ /\ route = "/admin/financials"
     /\ \E id \in 1..MaxPayments :
          AdminFinancials_handleStatusUpdate(user, id, "completed", TRUE, TRUE)
  \/ /\ route = "/admin/messages"
     /\ \/ AdminMessages_fetchMessages(user, TRUE)
        \/ \E id \in 1..MaxMessages :
             AdminMessages_handleViewMessage(user, id, TRUE)
        \/ \E id \in 1..MaxMessages :
             AdminMessages_handleSendReply(user, id, Str(0, 4, 0), TRUE)
        \/ \E id \in 1..MaxMessages :
             AdminMessages_handleDeleteMessage(user, id, TRUE, TRUE)

SpecAccess == Init /\ [][NextAccess]_vars

\* users recording payments one after the other, possibly within one tick
NextLedger ==
  \/ Tick
  \/ \E u \in Users, listOk \in BOOLEAN : Payments_authChange(u, listOk)
  \/ \E f \in AccessSlips : Payments_handleFileSelect(f)
  \/ \E v \in {450, 550} : Payments_setPaymentDetails("amount", v)
  \/ \E ok \in BOOLEAN, listOk \in BOOLEAN :
       Payments_handlePaymentSubmitUpTo(MaxRecorded, ok, listOk)

SpecLedger == Init /\ [][NextLedger]_vars

\* users saving their profile from the tabs they have open
NextProfile ==
  \/ \E t \in ProfileTabs, v \in {"n1"} :
       UserProfile_handleProfileChange(t, "fullName", v)
  \/ \E t \in ProfileTabs, ok \in BOOLEAN : UserProfile_fetchProfile(t, ok)
  \/ \E t \in ProfileTabs, listOk \in BOOLEAN :
       UserProfile_handleProfileSubmit_list(t, listOk)
  \/ \E t \in ProfileTabs, ok \in BOOLEAN :
       UserProfile_handleProfileSubmit_write(t, ok)

SpecProfile == Init /\ [][NextProfile]_vars

InitMoves ==
  \E n \in 0..MaxMoved :
    \E st \in [1..n -> PaymentStatuses] :
      InitWith(<< >>,
               [i \in 1..n |->
                  SnapshotPayment(i, "u1", st[i], 450, "bank_transfer", 0)])

\* one admin session moving payments from any status to any status
NextMoves ==
  \/ \E a \in FinanceSessions, listOk \in BOOLEAN :
       AdminFinancials_fetchPayments(a, listOk)
  \/ \E a \in FinanceSessions, id \in 1..MaxMoved, s \in PaymentStatuses,
        ok \in BOOLEAN, listOk \in BOOLEAN :
          AdminFinancials_handleStatusUpdate(a, id, s, ok, listOk)

SpecMoves == InitMoves /\ [][NextMoves]_vars

\* the financials page opening over payments recorded one calendar month
\* after the other, the last one in the current month
InitMonths ==
  \E n \in 0..MaxMonths :
    \E st \in [1..n -> {"completed", "pending"}] :
      InitAt(2 * n, << >>,
             [i \in 1..n |->
                SnapshotPayment(i, "u1", st[i], 450, "bank_transfer",
                                2 * (i - 1))])

SpecMonths == InitMonths /\ [][NextFinancials]_vars

InitRevenue ==
  \E n \in 0..MaxCountedPayments :
    \E st \in [1..n -> {"completed", "pending"}], am \in [1..n -> FeeSchedule] :
      InitWith(<< >>,
               [i \in 1..n |->
                  SnapshotPayment(i, "u1", st[i], am[i], "bank_transfer", 0)])

\* the dashboard and the financials page, each computing its statistics
\* over the same collection
NextRevenue == NextDashboard \/ NextFinancials

SpecRevenue == InitRevenue /\ [][NextRevenue]_vars

\* the dashboard opening at time 1 over papers and payments of times 0 and
\* 1 and over inquiries sent alternately at times 0 and 1
InitFeed ==
  \E np \in 0..MaxFeedPapers, ny \in 0..MaxFeedPayments,
     nm \in 0..MaxFeedMessages :
    \E tp \in [1..np -> 0..1], ty \in [1..ny -> 0..1] :
      InitOver(1,
        [i \in 1..np |-> SnapshotPaperAt(i, "u1", "submitted", tp[i])],
        [i \in 1..ny |->
           SnapshotPayment(i, "u1", "pending", 450, "bank_transfer", ty[i])],
        [i \in 1..nm |-> SnapshotMessage(i, i % 2)])

SpecFeed == InitFeed /\ [][NextDashboard]_vars

\* the dashboard computing its statistics over payments of every status
SpecPaymentCounts == InitFinancials /\ [][NextDashboard]_vars

FailureReplies == {Str(0, 4, 0)}

\* one paper, one pending payment and one inquiry are stored
InitFailure ==
  InitOver(0, <<SnapshotPaper(1, "u1", "submitted")>>,
           <<SnapshotPayment(1, "u1", "pending", 450, "bank_transfer", 0)>>,
           <<SnapshotMessage(1, 0)>>)

\* one admin on the three admin pages, the gateway failing at will
NextFailure ==
  \/ Tick
  \/ \E a \in ReviewSessions :
       \/ fetchPapers(a, TRUE)
       \/ AdminPapers_openReviewModal(a, 1)
       \/ \E st \in OwnerStatuses : AdminPapers_setReviewModal(a, "status", st)
       \/ \E ok \in BOOLEAN : AdminPapers_updateReview(a, ok)
  \/ \E a \in FinanceSessions :
       \/ AdminFinancials_fetchPayments(a, TRUE)
       \/ \E ok \in BOOLEAN :
            AdminFinancials_handleStatusUpdate(a, 1, "completed", ok, TRUE)
  \/ \E a \in InquirySessions :
       \/ AdminMessages_fetchMessages(a, TRUE)
       \/ \E ok \in BOOLEAN : AdminMessages_handleViewMessage(a, 1, ok)
       \/ AdminMessages_openReplyModal(a, 1)
       \/ \E r \in FailureReplies : AdminMessages_setReplyModal(a, r)
       \/ \E ok \in BOOLEAN : AdminMessages_sendReply(a, ok)
       \/ \E ok \in BOOLEAN : AdminMessages_handleDeleteMessage(a, 1, TRUE, ok)

SpecFailure == InitFailure /\ [][NextFailure]_vars

CollideStatuses == {"accepted", "rejected"}
CollideComments == {"c1"}

\* one paper is stored
InitCollide == InitOver(0, <<SnapshotPaper(1, "u1", "submitted")>>, << >>, << >>)

\* two admin sessions, each with its own list and its own review modal,
\* reviewing the same paper
NextCollide ==
  \/ Tick
  \/ \E a \in Admins :
       \/ fetchPapers(a, TRUE)
       \/ AdminPapers_openReviewModal(a, 1)
       \/ \E st \in CollideStatuses : AdminPapers_setReviewModal(a, "status", st)
       \/ \E c \in CollideComments : AdminPapers_setReviewModal(a, "comments", c)
       \/ \E ok \in BOOLEAN : AdminPapers_updateReview(a, ok)

SpecCollide == InitCollide /\ [][NextCollide]_vars

\* ------------------------------------------------------------------ C1
Unreviewed(p) ==
  /\ p.status = "submitted"
  /\ Has(p, "submittedAt")
  /\ ~Has(p, "reviewerComments")
  /\ ~Has(p, "reviewedAt")

\* C1: a submit with a valid form, a signed-in user and a successful create
\* adds exactly one paper and changes no other; every paper on which no
\* review call has succeeded yet has status 'submitted', a submittedAt, no
\* reviewerComments and no reviewedAt.
C1_SubmitCreatesUnreviewed ==
  [][/\ \A id \in DOMAIN papers' \ reviewed' : Unreviewed(papers'[id])
     /\ (SubmitPaper_handleSubmit(TRUE) /\ validateForm(formData)
           /\ user # NoUser)
        => /\ Cardinality(DOMAIN papers' \ DOMAIN papers) = 1
           /\ \A id \in DOMAIN papers : papers'[id] = papers[id]]_vars

C1_Witness ==
  \E id \in DOMAIN papers \ reviewed :
    /\ papers[id].submittedAt < now
    /\ id \in Ids(adminPapers["a1"])

\* ------------------------------------------------------------------ C2
SameVisibleFields(p, q) ==
  \A k \in (DOMAIN p \cup DOMAIN q) \ {"reviewedAt", "updatedAt"} :
    k \in DOMAIN p /\ k \in DOMAIN q /\ p[k] = q[k]

IsReviewedAs(q, s, c, t) ==
  /\ q.status = s
  /\ Has(q, "reviewerComments") /\ q.reviewerComments = c
  /\ Has(q, "reviewedAt") /\ q.reviewedAt = t

\* C2: whatever the current status, a successful review(id, s, c) leaves the
\* stored paper and the session's copy with status s, reviewerComments c and
\* reviewedAt = the time of the call; when the paper already had status s
\* and comments c, only reviewedAt and updatedAt may differ afterwards.
C2_ReviewAnyToAny ==
  [][\A a \in ReviewSessions, id \in DOMAIN papers, s \in statusOptions,
        c \in Comments :
       AdminPapers_handleStatusUpdate(a, id, s, c, TRUE)
       => /\ IsReviewedAs(papers'[id], s, c, now)
          /\ IsReviewedAs(Find(adminPapers'[a], id), s, c, now)
          /\ (papers[id].status = s /\ Has(papers[id], "reviewerComments")
                /\ papers[id].reviewerComments = c)
             => SameVisibleFields(papers[id], papers'[id])]_vars

C2_Witness ==
  \E id \in reviewed :
    /\ papers[id].status = "submitted"
    /\ papers[id].reviewerComments = "c1"
    /\ papers[id].reviewedAt > papers[id].submittedAt
    /\ Find(adminPapers["a1"], id) = papers[id]

\* ------------------------------------------------------------------ C3
\* C3: every stored paper has a title of at least 5 characters, an abstract
\* of 100 to 2000 characters, non-empty keywords and a file of at most
\* 16 MiB, and the form only ever holds a file of an allowed type and size.
C3_StoredFieldsValid ==
  /\ \A id \in DOMAIN papers :
       /\ Length(papers[id].title) >= 5
       /\ Length(papers[id].abstract) >= 100
       /\ Length(papers[id].abstract) <= 2000
       /\ Length(papers[id].keywords) > 0
       /\ papers[id].fileSize >= 0
       /\ papers[id].fileSize <= 16 * 1024 * 1024
  /\ formData.file # NoFile
     => /\ formData.file.type \in PaperAllowedTypes
        /\ formData.file.size <= 16 * 1024 * 1024

\* ------------------------------------------------------------------ C4
\* jpeg (under either of its two spellings), png or pdf, and at most 5 MiB
SlipOk(f) ==
  /\ f.type \in {"image/jpeg", "image/jpg", "image/png", "application/pdf"}
  /\ f.size <= 5 * 1024 * 1024

\* C4: the file passed to handleFileSelect becomes the selected slip if and
\* only if it is a jpeg/png/pdf of at most 5 MiB; the selected slip is always
\* such a file, and a payment is only created from a selected, accepted slip
\* whose name it records.
C4_SlipAcceptedIffAllowed ==
  [][/\ offered' # NoFile => (selectedFile' = offered' <=> SlipOk(offered'))
     /\ selectedFile' # NoFile => SlipOk(selectedFile')
     /\ \A id \in DOMAIN payments' \ DOMAIN payments :
          /\ selectedFile # NoFile
          /\ SlipOk(selectedFile)
          /\ payments'[id].paymentSlipName = selectedFile.name]_vars

C4_Witness ==
  /\ \E id \in DOMAIN payments : payments[id].paymentSlipName = "slip.png"
  /\ selectedFile.size = 5 * 1024 * 1024
  /\ offered.type = "text/plain"

\* ------------------------------------------------------------------ C5
\* C5: the record a recordPayment adds has status 'pending', no processedAt,
\* the signed-in user's id and a transaction identifier; while no admin
\* update has happened every stored payment is pending.
C5_CreatedPending ==
  [][/\ \A id \in DOMAIN payments' \ DOMAIN payments :
          /\ payments'[id].status = "pending"
          /\ ~Has(payments'[id], "processedAt")
          /\ user # NoUser /\ payments'[id].user_id = user
          /\ "transactionId" \in DOMAIN payments'[id]
          /\ payments'[id].transactionId = <<"TXN", now>>
     /\ \A id \in DOMAIN payments' : payments'[id].status = "pending"]_vars

C5_Witness ==
  \E id \in DOMAIN payments :
    /\ payments[id].user_id = "u2"
    /\ payments[id].amount = 550
    /\ payments[id].createdAt = 1
    /\ Ids(myPayments) = {id}

C7_ProcessedImpliesCompleted ==
  /\ \A id \in DOMAIN payments :
       Has(payments[id], "processedAt") => id \in everCompleted
  /\ \A a \in Admins : \A i \in DOMAIN adminPayments[a] :
       Has(adminPayments[a][i], "processedAt")
         => adminPayments[a][i]._id \in everCompleted
  /\ \A i \in DOMAIN myPayments :
       Has(myPayments[i], "processedAt") => myPayments[i]._id \in everCompleted

C7_Witness ==
  \E id \in everCompleted :
    /\ payments[id].status = "failed"
    /\ Has(payments[id], "processedAt")
    /\ payments[id].processedAt < payments[id].updatedAt
    /\ Find(adminPayments["a1"], id) = payments[id]

\* ------------------------------------------------------------------ C8
SameButUpdatedAt(p, q) ==
  \A k \in (DOMAIN p \cup DOMAIN q) \ {"updatedAt"} :
    k \in DOMAIN p /\ k \in DOMAIN q /\ p[k] = q[k]

\* C8: an inquiry is created unread; a stored inquiry that is read stays
\* read, and so does a session's copy of it; a successful markRead on an
\* inquiry that is already read leaves the stored inquiry as it was, up to
\* updatedAt.
C8_IsReadMonotonic ==
  [][/\ \A id \in DOMAIN messages' \ DOMAIN messages : ~messages'[id].isRead
     /\ \A id \in DOMAIN messages \cap DOMAIN messages' :
          messages[id].isRead => messages'[id].isRead
     /\ \A a \in Admins :
          \A id \in Ids(adminMessages[a]) \cap Ids(adminMessages'[a]) :
            Find(adminMessages[a], id).isRead
              => Find(adminMessages'[a], id).isRead
     /\ \A c \in markedRead' \ markedRead :
          /\ messages'[c[2]].isRead
          /\ Find(adminMessages'[c[1]], c[2]).isRead
          /\ messages[c[2]].isRead
             => SameButUpdatedAt(messages[c[2]], messages'[c[2]])]_vars

C8_Witness ==
  \E id \in DOMAIN messages :
    /\ <<"a1", id>> \in markedRead
    /\ <<"a2", id>> \in markedRead
    /\ messages[id].isRead
    /\ "adminResponse" \in DOMAIN messages[id]

\* ------------------------------------------------------------------ C9
\* C9: an inquiry that has an adminResponse is read, in the collection and
\* in every session's copy, whether or not markRead was ever called on it.
C9_RespondedIsRead ==
  /\ \A id \in DOMAIN messages :
       "adminResponse" \in DOMAIN messages[id] => messages[id].isRead
  /\ \A a \in Admins : \A i \in DOMAIN adminMessages[a] :
       "adminResponse" \in DOMAIN adminMessages[a][i]
         => adminMessages[a][i].isRead

C9_Witness ==
  \E id \in DOMAIN messages :
    /\ "adminResponse" \in DOMAIN messages[id]
    /\ messages[id].isRead
    /\ Find(adminMessages["a1"], id).isRead
    /\ \A a \in Admins : <<a, id>> \notin markedRead

\* ------------------------------------------------------------------ C10
Responded(m) == "adminResponse" \in DOMAIN m
RespondedStamped(m) ==
  /\ Has(m, "respondedAt") <=> Responded(m)
  /\ "respondedBy" \in DOMAIN m <=> Responded(m)

\* C10: respondedAt and respondedBy are present exactly when adminResponse
\* is, for every stored inquiry and every session's copy of one.
C10_RespondedFieldsTogether ==
  /\ \A id \in DOMAIN messages : RespondedStamped(messages[id])
  /\ \A a \in Admins : \A i \in DOMAIN adminMessages[a] :
       RespondedStamped(adminMessages[a][i])

C10_Witness ==
  \E id \in DOMAIN messages :
    /\ Responded(messages[id])
    /\ messages[id].respondedBy = "admin"
    /\ messages[id].respondedAt > messages[id].createdAt
    /\ Responded(Find(adminMessages["a1"], id))
    /\ <<"a1", id>> \in markedRead

\* ------------------------------------------------------------------ C11
NonBlank(s) == s.core > 0

\* C11: every adminResponse, stored or in a session's copy, has a character
\* that is not white space; no step sends a reply whose text is empty or
\* white space only, so such an attempt changes neither the collection nor
\* the session's list.
C11_ResponseNeverBlank ==
  [][/\ \A id \in DOMAIN messages' :
          Responded(messages'[id]) => NonBlank(messages'[id].adminResponse)
     /\ \A a \in Admins : \A i \in DOMAIN adminMessages'[a] :
          Responded(adminMessages'[a][i])
            => NonBlank(adminMessages'[a][i].adminResponse)
     /\ \A a \in InquirySessions, id \in DOMAIN messages, r \in Replies :
          (~NonBlank(r) /\ AdminMessages_handleSendReply(a, id, r, TRUE))
            => UNCHANGED <<messages, adminMessages>>]_vars

C11_Witness ==
  \E id \in DOMAIN messages :
    /\ Responded(messages[id])
    /\ messages[id].adminResponse.lead > 0
    /\ messages[id].adminResponse.trail > 0
    /\ Find(adminMessages["a1"], id).adminResponse = messages[id].adminResponse

\* ------------------------------------------------------------------ C12
\* C12: an inquiry whose remove succeeded is, from then on, neither in the
\* collection, nor in the result of a list call, nor in the list of the
\* session that removed it; the remove leaves every other inquiry as it
\* was, in the collection and in that session's list.
C12_RemovedStaysAbsent ==
  [][/\ \A c \in removed' :
          /\ c[2] \notin DOMAIN messages'
          /\ c[2] \notin Ids(GatewayList(messages', "createdAt"))
          /\ c[2] \notin Ids(adminMessages'[c[1]])
     /\ \A c \in removed' \ removed :
          /\ DOMAIN messages' = DOMAIN messages \ {c[2]}
          /\ \A j \in DOMAIN messages' : messages'[j] = messages[j]
          /\ \A j \in Ids(adminMessages[c[1]]) \ {c[2]} :
               /\ j \in Ids(adminMessages'[c[1]])
               /\ Find(adminMessages'[c[1]], j) = Find(adminMessages[c[1]], j)]_vars

C12_Witness ==
  \E c \in removed :
    /\ c[2] \in Ids(adminMessages["a2"])
    /\ \E j \in DOMAIN messages :
         /\ j > c[2]
         /\ j \in Ids(adminMessages[c[1]])
         /\ messages[j].isRead

\* ------------------------------------------------------------------ C13
\* the label under which the dashboard shows a status
C13_Label(status) ==
  CASE status = "submitted" -> "Submitted"
    [] status = "under_review" -> "Under Review"
    [] status = "accepted" -> "Accepted"
    [] status = "rejected" -> "Rejected"
    [] status = "revision_required" -> "Revision Required"

RECURSIVE C13_SumCount(_)
C13_SumCount(entries) ==
  IF entries = << >> THEN 0
  ELSE entries[1].count + C13_SumCount(Tail(entries))

RECURSIVE C14_SumOf(_)
C14_SumOf(ids) ==
  IF ids = {} THEN 0
  ELSE LET id == CHOOSE i \in ids : TRUE
       IN payments[id].amount + C14_SumOf(ids \ {id})

RECURSIVE C14_SumEntries(_)
C14_SumEntries(entries) ==
  IF entries = << >> THEN 0
  ELSE entries[1].amount + C14_SumEntries(Tail(entries))

\* C14: the total revenue the financials page computes is the sum of amount
\* over the payments of the collection whose status is 'completed' and over
\* no other payment, and it is the sum of the revenue-by-method entries.
C14_RevenueIsCompletedSum ==
  \A a \in FinanceSessions :
    Len(adminPayments[a]) > 0
    => /\ finStats[a].totalRevenue =
            C14_SumOf({id \in DOMAIN payments :
                         payments[id].status = "completed"})
       /\ finStats[a].totalRevenue =
            C14_SumEntries(finStats[a].revenueByMethod)
       /\ finStats[a].completedPayments =
            Cardinality({id \in DOMAIN payments :
                           payments[id].status = "completed"})

C14_Witness ==
  /\ finStats["a1"].totalRevenue = 650
  /\ Len(finStats["a1"].revenueByMethod) = 2
  /\ finStats["a1"].pendingPayments = 1
  /\ \E id \in DOMAIN payments :
       payments[id].status = "pending" /\ payments[id].amount = 450

\* ------------------------------------------------------------------ C15
C15_OwnedBy(coll, u) == {id \in DOMAIN coll : coll[id].user_id = u}
C15_IdsInOrder(list) == [i \in DOMAIN list |-> list[i]._id]

\* the list is exactly u's stored papers, newest submittedAt first, and
\* the paper u created last is its first element
C15_IsOwnersList(list, u) ==
  /\ Len(list) = Cardinality(C15_OwnedBy(papers', u))
  /\ Ids(list) = C15_OwnedBy(papers', u)
  /\ \A i \in DOMAIN list : list[i] = papers'[list[i]._id]
  /\ \A i, j \in DOMAIN list :
       i < j => list[i].submittedAt >= list[j].submittedAt
  /\ list # << >>
     => \A id \in C15_OwnedBy(papers', u) : id <= list[1]._id

C16_AdminWrite ==
  \/ \E id \in DOMAIN papers : papers'[id] # papers[id]
  \/ \E id \in DOMAIN payments : payments'[id] # payments[id]
  \/ \E id \in DOMAIN messages :
       id \notin DOMAIN messages' \/ messages'[id] # messages[id]

\* C16: a step that reviews a paper, updates the status of a payment, marks
\* an inquiry read, responds to it or removes it is taken while the
\* signed-in principal has the role ADMIN, never for a USER or for nobody.
C16_AdminOnlyWrites ==
  [][C16_AdminWrite => (user # NoUser /\ userRole(user) = "ADMIN")]_vars

C16_Witness ==
  /\ user = "u1"
  /\ reviewed # {}
  /\ everCompleted # {}
  /\ removed # {}
  /\ route = "/dashboard/payments"
  /\ \E i \in DOMAIN myPayments : myPayments[i].status = "completed"

\* ------------------------------------------------------------------ C17
C17_SetOnce ==
  {"_id", "submittedAt", "createdAt", "title", "abstract", "keywords",
   "user_id", "fileName", "fileSize", "filePath"}
C17_ReviewWrites == {"status", "reviewerComments", "reviewedAt", "updatedAt"}

\* C17: in every step each stored paper stays stored with the same
\* submittedAt, title, abstract, keywords, owner and file metadata; a
\* successful review of a paper changes, of that paper, only status,
\* reviewerComments, reviewedAt and updatedAt, and leaves every other paper
\* exactly as it was.
C17_ReviewFrame ==
  [][/\ \A id \in DOMAIN papers :
          /\ id \in DOMAIN papers'
          /\ \A k \in C17_SetOnce :
               /\ k \in DOMAIN papers[id] /\ k \in DOMAIN papers'[id]
               /\ papers'[id][k] = papers[id][k]
     /\ \A a \in ReviewSessions, id \in DOMAIN papers, st \in OwnerStatuses :
          AdminPapers_handleStatusUpdate(a, id, st, "c1", TRUE)
          => /\ \A other \in DOMAIN papers \ {id} :
                  papers'[other] = papers[other]
             /\ DOMAIN papers'[id] \subseteq DOMAIN papers[id] \cup C17_ReviewWrites
             /\ \A k \in DOMAIN papers[id] \ C17_ReviewWrites :
                  papers'[id][k] = papers[id][k]]_vars

C17_Witness ==
  /\ Cardinality(DOMAIN papers) = 2
  /\ \E id \in reviewed :
       /\ papers[id].status = "accepted"
       /\ papers[id].reviewedAt > papers[id].submittedAt
       /\ papers[id].user_id = "u2"
  /\ \E id \in DOMAIN papers \ reviewed :
       /\ papers[id].user_id = "u1"
       /\ id \in Ids(adminPapers["a1"])

\* ------------------------------------------------------------------ C18
\* C18: no two stored payments carry the same transactionId.
C18_TransactionIdsUnique ==
  \A i, j \in DOMAIN payments :
    i # j => payments[i].transactionId # payments[j].transactionId

\* ------------------------------------------------------------------ C19
\* C19: a successful reply by admin a leaves the inquiry, stored and in a's
\* list, with respondedBy = a.
C19_RespondedByActingAdmin ==
  [][\A a \in InquirySessions, id \in DOMAIN messages, r \in Replies :
       AdminMessages_handleSendReply(a, id, r, TRUE)
       => /\ messages'[id].respondedBy = a
          /\ Find(adminMessages'[a], id).respondedBy = a]_vars

\* ------------------------------------------------------------------ C20
\* C20: the collection never holds two profiles of the same user.
C20_OneProfilePerUser ==
  \A u \in Users : Cardinality(ProfilesOf(u)) <= 1

\* ------------------------------------------------------------------ C21
\* C21: a recordPayment attempted while no slip is selected creates nothing,
\* whether or not the gateway would have accepted a create: the collection,
\* the user's list and the selection stay as they were; the selection of a
\* file that is not a jpeg/png/pdf of at most 5 MiB creates nothing either
\* and leaves the slip that was selected before, if any, selected.
C21_RejectedNothingWritten ==
  [][/\ \A ok \in BOOLEAN, listOk \in BOOLEAN :
          (selectedFile = NoFile /\ Payments_handlePaymentSubmit(ok, listOk))
            => UNCHANGED <<payments, myPayments, selectedFile>>
     /\ \A f \in SlipFiles \ {NoFile} :
          (~SlipOk(f) /\ Payments_handleFileSelect(f))
            => UNCHANGED <<payments, myPayments, selectedFile>>]_vars

\* an oversized jpeg was offered while slip.png was selected: slip.png stays
C21_Witness ==
  /\ user # NoUser
  /\ selectedFile.name = "slip.png"
  /\ offered.name = "slip.jpg" /\ offered.size > SlipMaxSize
  /\ DOMAIN payments = {}

\* ------------------------------------------------------------------ C22
\* C22: a remove whose confirmation is declined issues no gateway call and
\* leaves the collection and the session's list as they were, whether or
\* not the gateway would have accepted the delete; an inquiry only leaves
\* the collection in a step that is a confirmed remove of it.
C22_DeclinedRemovesNothing ==
  [][/\ \A a \in Admins, id \in 1..MaxRemovable, ok \in BOOLEAN :
          AdminMessages_handleDeleteMessage(a, id, FALSE, ok)
            => /\ UNCHANGED <<messages, adminMessages, removed>>
               /\ aborted'.calls = << >>
     /\ \A id \in DOMAIN messages \ DOMAIN messages' :
          \E a \in Admins : AdminMessages_handleDeleteMessage(a, id, TRUE, TRUE)]_vars

\* a remove was declined and nothing has been removed
C22_Witness ==
  /\ aborted = Declined
  /\ removed = {}
  /\ \E id \in DOMAIN messages :
       id \in Ids(adminMessages["a1"]) /\ id \in Ids(adminMessages["a2"])

C24_Violated(fd) ==
  {i \in 1..6 :
     CASE i = 1 -> fd.title.core = 0
       [] i = 2 -> Length(fd.title) < 5
       [] i = 3 -> fd.abstract.core = 0
       [] i = 4 -> Length(fd.abstract) < 100
       [] i = 5 -> fd.keywords.core = 0
       [] i = 6 -> fd.file = NoFile}

C24_Message(i) ==
  CASE i = 1 -> "Please enter a paper title"
    [] i = 2 -> "Title must be at least 5 characters long"
    [] i = 3 -> "Please enter an abstract"
    [] i = 4 -> "Abstract must be at least 100 characters long"
    [] i = 5 -> "Please enter keywords"
    [] i = 6 -> "Please upload a paper file"

\* C24: on a form that violates one or more of the six checks, the submit
\* reports one message, that of the violated check that comes first in the
\* order title empty, title short, abstract empty, abstract short, keywords
\* empty, file missing, and it reports none on a form that violates no
\* check; a paper is only ever created from a form that violates none.
C24_FirstViolationReported ==
  [][/\ validateFormError(formData') =
          IF C24_Violated(formData') = {} THEN ""
          ELSE C24_Message(CHOOSE i \in C24_Violated(formData') :
                             \A j \in C24_Violated(formData') : i <= j)
     /\ \A id \in DOMAIN papers' \ DOMAIN papers :
          C24_Violated(formData) = {}]_vars

\* a white-space title, an abstract of 99 characters, no keywords, no file:
\* five checks fail and the message of the first one is reported
C24_Witness ==
  /\ C24_Violated(formData) = {1, 2, 4, 5, 6}
  /\ validateFormError(formData) = "Please enter a paper title"
  /\ user # NoUser
  /\ DOMAIN papers = {}

\* ------------------------------------------------------------------ C25
\* the completed payments of the collection created in the month of time t
C25_CompletedIn(t) ==
  {id \in DOMAIN payments :
     /\ payments[id].status = "completed"
     /\ monthLabel(payments[id].createdAt) = monthLabel(t)}

\* the months that have a completed payment
C25_Months ==
  {payments[id].createdAt \div 2 :
     id \in {i \in DOMAIN payments : payments[i].status = "completed"}}

\* the six most recent of them (all of them when there are six or fewer)
C25_RecentMonths ==
  {m \in C25_Months : Cardinality({k \in C25_Months : k > m}) < 6}

\* C25: the revenue-by-month series the financials page computes has one
\* entry for each of the six most recent months that have a completed
\* payment (for each such month when there are at most six) and no other
\* entry, and the amount of an entry is the sum of the completed amounts
\* created in its month.
C25_LastSixMonths ==
  \A a \in FinanceSessions :
    Len(adminPayments[a]) > 0
    => LET series == finStats[a].revenueByMonth
       IN /\ {series[i].month : i \in DOMAIN series} =
               {monthLabel(2 * m) : m \in C25_RecentMonths}
          /\ Len(series) = Cardinality(C25_RecentMonths)
          /\ \A i \in DOMAIN series :
               \E m \in C25_RecentMonths :
                 /\ series[i].month = monthLabel(2 * m)
                 /\ series[i].amount = C14_SumOf(C25_CompletedIn(2 * m))

\* ------------------------------------------------------------------ C26
C26_Completed == {id \in DOMAIN payments : payments[id].status = "completed"}

\* C26: over one and the same collection, the Total Revenue of the dashboard
\* is 450 times the number of completed payments, and the total revenue of
\* the financials page is the sum of the amounts of the completed payments;
\* the two differ on collections the fee schedule allows (C26_Witness).
C26_TwoRevenueTotals ==
  /\ dashStats # InitDashboardStats
     => AdminDashboard_totalRevenue(dashStats) = 450 * Cardinality(C26_Completed)
  /\ \A a \in FinanceSessions :
       Len(adminPayments[a]) > 0
       => finStats[a].totalRevenue = C14_SumOf(C26_Completed)

\* both pages have computed their total over completed payments of 200,
\* 350 and 550 and a pending one never enters: 1350 on the dashboard, 1100
\* on the financials page
C26_Witness ==
  /\ dashStats # InitDashboardStats
  /\ Len(adminPayments["a1"]) > 0
  /\ {payments[id].amount : id \in C26_Completed} = {200, 350, 550}
  /\ AdminDashboard_totalRevenue(dashStats) = 1350
  /\ finStats["a1"].totalRevenue = 1100
  /\ AdminDashboard_totalRevenue(dashStats) # finStats["a1"].totalRevenue

\* ------------------------------------------------------------------ C27
C27_Min(a, b) == IF a < b THEN a ELSE b

\* the entries of the feed that have the given type
C27_OfType(feed, type) == SelectSeq(feed, LAMBDA e : e.type = type)

\* the entries are `most` of the most recent records of the collection, by
\* the timestamp `key`: from every time on, the feed has as many entries as
\* the collection has records, up to `most`
C27_MostRecent(entries, coll, key, most) ==
  \A t \in 0..MaxTime :
    Cardinality({i \in DOMAIN entries : entries[i].time >= t}) =
      C27_Min(most, Cardinality({id \in DOMAIN coll : coll[id][key] >= t}))

C28_Label(status) ==
  CASE status = "pending" -> "Pending"
    [] status = "completed" -> "Completed"
    [] status = "failed" -> "Failed"
    [] status = "refunded" -> "Refunded"

\* C28: once the dashboard has computed its statistics, paymentsByStatus has
\* an entry for each of the four payment statuses, whose count is the number
\* of payments of the collection in that status, and the counts add up to
\* the number of payments, which is also totalPayments.
C28_PaymentCountsComplete ==
  dashStats # InitDashboardStats
  => /\ \A st \in PaymentStatuses :
          \E i \in DOMAIN dashStats.paymentsByStatus :
            /\ dashStats.paymentsByStatus[i].status = C28_Label(st)
            /\ dashStats.paymentsByStatus[i].count =
                 Cardinality({id \in DOMAIN payments : payments[id].status = st})
     /\ C13_SumCount(dashStats.paymentsByStatus) = dashStats.totalPayments
     /\ dashStats.totalPayments = Cardinality(DOMAIN payments)

\* ------------------------------------------------------------------ C29
\* what the admin pages and the collections hold
C29_Written ==
  <<papers, payments, messages, adminPapers, adminPayments, adminMessages,
    finStats, reviewed, everCompleted, markedRead, removed>>

\* the run issued the one gateway call, reported the failure once and
\* wrote nothing, neither to the collections nor to the page's state
C29_FailedOnce(call) ==
  /\ aborted' = Caught(call)
  /\ Len(aborted'.calls) = 1
  /\ aborted'.toasts = <<"error">>
  /\ UNCHANGED C29_Written

\* C29: a review, a payment status update, a reply, a markRead or a remove
\* whose gateway call fails leaves every stored record and every list of
\* the admin pages as they were, has issued that one call and shown one
\* error, and leaves the review modal and the reply modal as they were,
\* open on what the admin had entered.
C29_FailureWritesNothing ==
  [][/\ aborted' # aborted
          => UNCHANGED <<C29_Written, reviewModal, replyModal>>
     /\ \A a \in ReviewSessions :
          AdminPapers_updateReview(a, FALSE)
            => /\ C29_FailedOnce("papers.update")
               /\ reviewModal'[a].open /\ reviewModal' = reviewModal
     /\ \A a \in FinanceSessions, id \in DOMAIN payments :
          AdminFinancials_handleStatusUpdate(a, id, "completed", FALSE, TRUE)
            => C29_FailedOnce("payments.update")
     /\ \A a \in InquirySessions :
          AdminMessages_sendReply(a, FALSE)
            => /\ C29_FailedOnce("messages.update")
               /\ replyModal'[a].open /\ replyModal' = replyModal
     /\ \A a \in InquirySessions, id \in DOMAIN messages :
          AdminMessages_handleMarkAsRead(a, id, FALSE)
            => C29_FailedOnce("messages.update")
     /\ \A a \in InquirySessions, id \in DOMAIN messages :
          AdminMessages_handleDeleteMessage(a, id, TRUE, FALSE)
            => C29_FailedOnce("messages.delete")]_vars

\* the review modal is still open on 'accepted' after the failed update,
\* and the paper is 'submitted' in the collection and in the list
C29_Witness ==
  /\ aborted = Caught("papers.update")
  /\ reviewModal["a1"].open
  /\ reviewModal["a1"].status = "accepted"
  /\ papers[1].status = "submitted"
  /\ Find(adminPapers["a1"], 1).status = "submitted"
  /\ replyModal["a1"].open
  /\ replyModal["a1"].response = Str(0, 4, 0)
  /\ ~Responded(messages[1])
  /\ payments[1].status = "pending"
  /\ adminPayments["a1"] # << >>

\* ------------------------------------------------------------------ C30
\* C30: a review that the gateway accepts goes through whatever the other
\* admin has written since the session's copy was taken, and leaves the
\* stored paper and the session's copy with the status and the comments of
\* that session's modal and with reviewedAt = the time of the call; a step
\* that changes a stored paper gives it the status, the comments and the
\* reviewedAt of one and the same call, never some of one call and some of
\* another.
C30_LastWriteWhole ==
  [][/\ \A a \in Admins :
          AdminPapers_updateReview(a, TRUE)
            => LET m == reviewModal[a]
               IN /\ IsReviewedAs(papers'[m.paper._id], m.status, m.comments, now)
                  /\ IsReviewedAs(Find(adminPapers'[a], m.paper._id),
                                  m.status, m.comments, now)
     /\ \A id \in DOMAIN papers :
          papers'[id] # papers[id]
            => \E a \in Admins :
                 /\ reviewModal[a].open
                 /\ reviewModal[a].paper._id = id
                 /\ IsReviewedAs(papers'[id], reviewModal[a].status,
                                 reviewModal[a].comments, now)]_vars

\* a1 accepted the paper with a comment at time 0; a2, whose modal was open
\* on the paper as submitted, rejected it without a comment at time 1: the
\* stored paper is a2's review, a1's list still shows a1's
C30_Witness ==
  /\ 1 \in Ids(adminPapers["a1"]) /\ 1 \in Ids(adminPapers["a2"])
  /\ IsReviewedAs(Find(adminPapers["a1"], 1), "accepted", "c1", 0)
  /\ IsReviewedAs(papers[1], "rejected", "", 1)
  /\ Find(adminPapers["a2"], 1) = papers[1]
  /\ ~reviewModal["a1"].open /\ ~reviewModal["a2"].open

====
